---- MODULE Spec2Model ----
(***************************************************************************)
(* Model of the securegen backend: the passphrase generator                *)
(* (src-tauri/src/generators/passphrase.rs), the username generator with   *)
(* its request validation (src-tauri/src/generators/username.rs), and the  *)
(* commands and the tray of the application (src-tauri/src/main.rs).       *)
(*                                                                         *)
(* Strings are sequences of characters; a character is a one-element       *)
(* token ("a", "@", ...).  The token "LOCK" stands for the single          *)
(* character U+1F512, which takes four bytes in UTF-8.                     *)
(***************************************************************************)
EXTENDS Integers, Sequences, FiniteSets, TLC

VARIABLES
    ppPhase,      \* "idle" before the generate_passphrase command, "done" after
    ppRequest,    \* the PassphraseGeneratorRequest of the call
    ppRng,        \* the random generator handed to passphrase_with_rng
    ppWords,      \* passphrase_words after gen_words
    ppNumbered,   \* passphrase_words after the include_number step
    ppFinal,      \* passphrase_words after the capitalize step
    ppResult,     \* Result<String, PassphraseError> of the call
    detOptions,   \* ValidPassphraseGeneratorOptions shared by the two seeded runs
    detRng,       \* run -> its own seeded random generator
    detPc,        \* run -> position inside passphrase_with_rng
    detWords,     \* run -> passphrase_words of the run
    detResult,    \* run -> returned string
    unPhase,      \* "idle" before the generate_username command, "done" after
    unRequest,    \* the UsernameGeneratorRequest of the call
    unRng,        \* the thread random generator of the call
    unHttp,       \* HTTP requests issued by the call, in order
    unResponse,   \* the answer of the provider to the request of the call, if any
    unResult,     \* Result<String, UsernameError> of the call
    evPhase,      \* "idle" before the calculate_username_strength command, "done" after
    evUsername,   \* the username handed to evaluate_username_security
    evSteps,      \* the accumulators of the evaluation after each of its steps
    evResult,     \* the UsernameStrength returned
    cmdPhase,     \* "idle" before a call of one of the functions below, "done" after
    cmdCall,      \* the function called and its input
    cmdResult,    \* what the calls returned, in order
    ipAttempts,   \* the strategies get_public_ip_address has called, with their outcomes
    ipResult,     \* the IPResponse returned by get_public_ip_address, if it returned
    trayApp,      \* the main window, whether the process runs, the events emitted
    trayLog,      \* the tray and window events handled so far, in order
    saveHost,     \* the clock of the host, the secgen directory and its files
    saveCalls     \* call of save_password_to_file -> its position and its values

ppVars == <<ppPhase, ppRequest, ppRng, ppWords, ppNumbered, ppFinal, ppResult>>
detVars == <<detOptions, detRng, detPc, detWords, detResult>>
unVars == <<unPhase, unRequest, unRng, unHttp, unResponse, unResult>>
evVars == <<evPhase, evUsername, evSteps, evResult>>
cmdVars == <<cmdPhase, cmdCall, cmdResult>>
ipVars == <<ipAttempts, ipResult>>
trayVars == <<trayApp, trayLog>>
saveVars == <<saveHost, saveCalls>>
mainVars == <<evVars, cmdVars, ipVars, trayVars, saveVars>>
vars == <<ppVars, detVars, unVars, mainVars>>

\* the state of the username evaluation before the command is invoked
EVParked ==
    /\ evPhase = "idle"
    /\ evUsername = <<>>
    /\ evSteps = <<>>
    /\ evResult = [panic |-> FALSE, value |-> [score |-> 0]]

\* the state of main.rs before any of its commands is invoked
MainParked ==
    /\ EVParked
    /\ cmdPhase = "idle"
    /\ cmdCall = [function |-> "none"]
    /\ cmdResult = <<>>
    /\ ipAttempts = <<>>
    /\ ipResult = [some |-> FALSE]
    /\ trayApp = [window |-> [exists |-> TRUE, visible |-> TRUE, focused |-> TRUE,
                              minimized |-> FALSE],
                  running |-> TRUE, emitted |-> <<>>]
    /\ trayLog = <<>>
    /\ saveHost = [now |-> [minute |-> 0, second |-> 0], secgen_dir |-> FALSE,
                   files |-> <<>>, written |-> <<>>]
    /\ saveCalls = [p \in {1, 2} |->
                       [pc |-> "idle", password |-> <<>>, now |-> saveHost.now,
                        file_path |-> <<>>, result |-> [kind |-> "Pending"]]]

----------------------------------------------------------------------------
(* Bounds of the model *)

\* period of the raw output stream of a modelled random generator
TapeLen == 2
\* largest raw output of a modelled random generator
MaxRaw == 3
\* the seeded runs use num_words from the minimum up to the minimum plus this
MaxExtraWords == 1

(* Program constants *)

MINIMUM_PASSPHRASE_NUM_WORDS == 3
MAXIMUM_PASSPHRASE_NUM_WORDS == 20
\* largest value of the u8 field num_words
U8_MAX == 255

----------------------------------------------------------------------------
(* Characters and the string functions of the Rust standard library *)

LowerLetters == <<"a","b","c","d","e","f","g","h","i","j","k","l","m",
                  "n","o","p","q","r","s","t","u","v","w","x","y","z">>
UpperLetters == <<"A","B","C","D","E","F","G","H","I","J","K","L","M",
                  "N","O","P","Q","R","S","T","U","V","W","X","Y","Z">>
DecimalDigits == <<"0","1","2","3","4","5","6","7","8","9">>
WhiteSpace == {" ", "TAB", "LF"}

RangeOf(s) == {s[i] : i \in 1..Len(s)}

\* char::is_ascii_digit
is_ascii_digit(c) == c \in RangeOf(DecimalDigits)

\* char::to_uppercase: the upper-case mapping of one character, as a string
to_uppercase(c) ==
    IF c \in RangeOf(LowerLetters)
    THEN <<UpperLetters[CHOOSE i \in 1..26 : LowerLetters[i] = c]>>
    ELSE <<c>>

\* number of bytes of a character in UTF-8
len_utf8(c) == IF c = "LOCK" THEN 4 ELSE 1

RECURSIVE str_len(_)
\* str::len: the length of a string in bytes
str_len(s) == IF s = <<>> THEN 0 ELSE len_utf8(Head(s)) + str_len(Tail(s))

\* s has pattern p at position i
MatchAt(s, p, i) ==
    /\ i + Len(p) - 1 <= Len(s)
    /\ \A k \in 1..Len(p) : s[i + k - 1] = p[k]

\* str::contains
str_contains(s, p) == \E i \in 1..(Len(s) + 1) : MatchAt(s, p, i)

\* the places where s has pattern p
MatchPlaces(s, p) == {j \in 1..(Len(s) + 1) : MatchAt(s, p, j)}

RECURSIVE MatchesFrom(_, _, _)
\* the matches found from position i on, among the places where the pattern
\* of the given width occurs: the leftmost one, then those after its end
MatchesFrom(places, width, i) ==
    LET ahead == {j \in places : j >= i}
    IN  IF ahead = {} THEN 0
        ELSE LET j == CHOOSE j \in ahead : \A k \in ahead : j <= k
             IN  1 + MatchesFrom(places, width, j + width)

\* str::matches(p).count(): the non-overlapping occurrences of a non-empty
\* pattern, found left to right
matches_count(s, p) == MatchesFrom(MatchPlaces(s, p), Len(p), 1)

RECURSIVE trim_start(_)
trim_start(s) ==
    IF s # <<>> /\ Head(s) \in WhiteSpace THEN trim_start(Tail(s)) ELSE s

RECURSIVE trim_end(_)
trim_end(s) ==
    IF s # <<>> /\ s[Len(s)] \in WhiteSpace
    THEN trim_end(SubSeq(s, 1, Len(s) - 1)) ELSE s

\* str::trim
trim(s) == trim_end(trim_start(s))

RECURSIVE join(_, _)
\* [String]::join
join(words, sep) ==
    IF words = <<>> THEN <<>>
    ELSE IF Len(words) = 1 THEN words[1]
    ELSE words[1] \o sep \o join(Tail(words), sep)

RECURSIVE to_decimal(_)
\* the decimal digits of a non-negative integer (Display for integers)
to_decimal(n) ==
    IF n < 10 THEN <<DecimalDigits[n + 1]>>
    ELSE to_decimal(n \div 10) \o <<DecimalDigits[(n % 10) + 1]>>

----------------------------------------------------------------------------
(* The word list.  The list itself (generators/eff_wordlist.rs) is data    *)
(* that is not part of the examined sources; these entries are words of    *)
(* the published EFF long list, at least two per username strength band,   *)
(* among them the four list words the tests of main.rs name (able, abide,  *)
(* outcome, transport) and one that contains a term of the common-word     *)
(* check of main.rs (attest).                                              *)

EFF_LONG_WORD_LIST ==
    << <<"a","b","l","e">>,
       <<"a","c","i","d">>,
       <<"a","b","i","d","e">>,
       <<"a","c","o","r","n">>,
       <<"o","u","t","c","o","m","e">>,
       <<"a","b","d","o","m","e","n">>,
       <<"t","r","a","n","s","p","o","r","t">>,
       <<"a","b","d","o","m","i","n","a","l">>,
       <<"a","t","t","e","s","t">> >>

----------------------------------------------------------------------------
(* The random generator (rand::RngCore).  A generator is a periodic stream *)
(* of raw outputs, the tape, and the number of outputs drawn so far.       *)

RawMod == MaxRaw + 1
Tapes == [1..TapeLen -> 0..MaxRaw]
NoRng == [tape |-> <<>>, pos |-> 0]

\* a freshly created generator (thread_rng(), or from_seed) with a given stream
NewRng(tape) == [tape |-> tape, pos |-> 0]

\* the raw output k draws after the current one
RawAt(rng, k) == rng.tape[((rng.pos + k) % TapeLen) + 1]

\* the generator after k draws
Advance(rng, k) == [rng EXCEPT !.pos = @ + k]

\* Rng::gen_range(low..low+span), k draws after the current one: the raw
\* output scaled onto the range
gen_range(rng, k, low, span) == low + ((RawAt(rng, k) * span) \div RawMod)

\* SliceRandom::choose on a non-empty list, k draws after the current one
choose(rng, k, list) == list[gen_range(rng, k, 1, Len(list))]

----------------------------------------------------------------------------
(* passphrase.rs *)

Separators == { <<>>, <<" ">>, <<"t","t">>, <<"LOCK">> }

PassphraseRequests ==
    [num_words : 0..U8_MAX, word_separator : Separators,
     capitalize : BOOLEAN, include_number : BOOLEAN]

InvalidNumWords ==
    [kind |-> "Err", error |-> "InvalidNumWords",
     minimum |-> MINIMUM_PASSPHRASE_NUM_WORDS,
     maximum |-> MAXIMUM_PASSPHRASE_NUM_WORDS]

Ok(value) == [kind |-> "Ok", value |-> value]

validate_options_off_by_one(request) ==
    IF ~(request.num_words > MINIMUM_PASSPHRASE_NUM_WORDS
         /\ request.num_words <= MAXIMUM_PASSPHRASE_NUM_WORDS)
    THEN InvalidNumWords
    ELSE Ok(request)

\* PassphraseGeneratorRequest::validate_options
validate_options(request) ==
    IF ~(request.num_words >= MINIMUM_PASSPHRASE_NUM_WORDS
         /\ request.num_words <= MAXIMUM_PASSPHRASE_NUM_WORDS)
    THEN InvalidNumWords
    ELSE Ok(request)

\* gen_words: num_words draws from the list, one after the other
gen_words(rng, num_words) ==
    [i \in 1..num_words |-> choose(rng, i - 1, EFF_LONG_WORD_LIST)]

include_number_in_every_word(rng, words) ==
    LET digit == gen_range(rng, 1, 0, 10)
    IN  [i \in 1..Len(words) |-> words[i] \o to_decimal(digit)]

\* include_number_in_words: two draws, the index and then the digit
include_number_in_words(rng, words) ==
    LET number_idx == gen_range(rng, 0, 0, Len(words))
        digit == gen_range(rng, 1, 0, 10)
    IN  [words EXCEPT ![number_idx + 1] = @ \o to_decimal(digit)]

\* capitalize_first_letter
capitalize_first_letter(s) ==
    IF s = <<>> THEN <<>> ELSE to_uppercase(Head(s)) \o Tail(s)

capitalize_first_word_only(words) ==
    [i \in 1..Len(words) |->
        IF i = 1 THEN capitalize_first_letter(words[i]) ELSE words[i]]

\* capitalize_words
capitalize_words(words) ==
    [i \in 1..Len(words) |-> capitalize_first_letter(words[i])]

join_with_trailing_separator(words, sep) == join(words, sep) \o sep

\* the last statement of passphrase_with_rng
join_words(words, sep) == join(words, sep)

\* passphrase_with_rng: the words after each of its steps, the returned string
\* and the generator as the call leaves it
passphrase_with_rng(rng, options) ==
    LET words == gen_words(rng, options.num_words)
        rng1 == Advance(rng, options.num_words)
        numbered == IF options.include_number
                    THEN include_number_in_words(rng1, words) ELSE words
        rng2 == IF options.include_number THEN Advance(rng1, 2) ELSE rng1
        final == IF options.capitalize THEN capitalize_words(numbered)
                 ELSE numbered
    IN  [words |-> words, numbered |-> numbered, final |-> final,
         result |-> join_words(final, options.word_separator), rng |-> rng2]

PPInit ==
    /\ ppPhase = "idle"
    /\ ppRequest = [num_words |-> 0, word_separator |-> <<>>,
                    capitalize |-> FALSE, include_number |-> FALSE]
    /\ ppRng = NoRng
    /\ ppWords = <<>>
    /\ ppNumbered = <<>>
    /\ ppFinal = <<>>
    /\ ppResult = Ok(<<>>)

\* generate_passphrase on a request that validate_options rejects
GeneratePassphraseInvalid ==
    /\ ppPhase = "idle"
    /\ \E request \in PassphraseRequests :
         /\ validate_options(request).kind = "Err"
         /\ ppRequest' = request
         /\ ppResult' = validate_options(request)
    /\ ppPhase' = "done"
    /\ UNCHANGED <<ppRng, ppWords, ppNumbered, ppFinal>>

\* generate_passphrase on a request that validate_options accepts
GeneratePassphraseValid ==
    /\ ppPhase = "idle"
    /\ \E request \in PassphraseRequests, tape \in Tapes :
         LET options == validate_options(request)
             run == passphrase_with_rng(NewRng(tape), options.value)
         IN  /\ options.kind = "Ok"
             /\ ppRequest' = request
             /\ ppRng' = run.rng
             /\ ppWords' = run.words
             /\ ppNumbered' = run.numbered
             /\ ppFinal' = run.final
             /\ ppResult' = Ok(run.result)
    /\ ppPhase' = "done"

DetParked ==
    /\ detOptions = [num_words |-> 0, word_separator |-> <<>>,
                     capitalize |-> FALSE, include_number |-> FALSE]
    /\ detRng = <<NoRng, NoRng>>
    /\ detPc = <<"done", "done">>
    /\ detWords = << <<>>, <<>> >>
    /\ detResult = << <<>>, <<>> >>

UNParked ==
    /\ unPhase = "idle"
    /\ unRequest = [variant |-> "None"]
    /\ unRng = NoRng
    /\ unHttp = <<>>
    /\ unResponse = [some |-> FALSE]
    /\ unResult = Ok(<<>>)

InitPassphrase == PPInit /\ DetParked /\ UNParked /\ MainParked

NextPassphrase ==
    \/ GeneratePassphraseInvalid /\ UNCHANGED <<detVars, unVars, mainVars>>
    \/ GeneratePassphraseValid /\ UNCHANGED <<detVars, unVars, mainVars>>

SpecPassphrase == InitPassphrase /\ [][NextPassphrase]_vars

----------------------------------------------------------------------------
(* Two runs of passphrase_with_rng, each on a generator of its own seeded  *)
(* alike (test_deterministic_generation), their statements interleaved.    *)

Runs == {1, 2}

DetOptionsSet ==
    [num_words : MINIMUM_PASSPHRASE_NUM_WORDS..
                   (MINIMUM_PASSPHRASE_NUM_WORDS + MaxExtraWords),
     word_separator : Separators,
     capitalize : BOOLEAN, include_number : BOOLEAN]

SharedRngSlot(run) == 1

\* the generator a run draws from: the one passed to it (`mut rng`)
RngSlot(run) == run

DetInit ==
    /\ detOptions \in DetOptionsSet
    /\ \E seed \in Tapes : detRng = <<NewRng(seed), NewRng(seed)>>
    /\ detPc = <<"gen_words", "gen_words">>
    /\ detWords = << <<>>, <<>> >>
    /\ detResult = << <<>>, <<>> >>

\* let mut passphrase_words = gen_words(&mut rng, options.num_words);
DetGenWords(run) ==
    /\ detPc[run] = "gen_words"
    /\ detWords' = [detWords EXCEPT
                      ![run] = gen_words(detRng[RngSlot(run)], detOptions.num_words)]
    /\ detRng' = [detRng EXCEPT
                    ![RngSlot(run)] = Advance(@, detOptions.num_words)]
    /\ detPc' = [detPc EXCEPT ![run] = "include_number"]
    /\ UNCHANGED <<detOptions, detResult>>

\* if options.include_number { include_number_in_words(..) }
DetIncludeNumber(run) ==
    /\ detPc[run] = "include_number"
    /\ IF detOptions.include_number
       THEN /\ detWords' = [detWords EXCEPT
                  ![run] = include_number_in_words(detRng[RngSlot(run)], @)]
            /\ detRng' = [detRng EXCEPT ![RngSlot(run)] = Advance(@, 2)]
       ELSE UNCHANGED <<detWords, detRng>>
    /\ detPc' = [detPc EXCEPT ![run] = "capitalize"]
    /\ UNCHANGED <<detOptions, detResult>>

\* if options.capitalize { capitalize_words(..) }
DetCapitalize(run) ==
    /\ detPc[run] = "capitalize"
    /\ detWords' = [detWords EXCEPT
          ![run] = IF detOptions.capitalize THEN capitalize_words(@) ELSE @]
    /\ detPc' = [detPc EXCEPT ![run] = "join"]
    /\ UNCHANGED <<detOptions, detRng, detResult>>

\* passphrase_words.join(&options.word_separator)
DetJoin(run) ==
    /\ detPc[run] = "join"
    /\ detResult' = [detResult EXCEPT
          ![run] = join_words(detWords[run], detOptions.word_separator)]
    /\ detPc' = [detPc EXCEPT ![run] = "done"]
    /\ UNCHANGED <<detOptions, detRng, detWords>>

PPParked == PPInit

InitDeterminism == DetInit /\ PPParked /\ UNParked /\ MainParked

NextDeterminism ==
    \E run \in Runs :
        \/ DetGenWords(run) /\ UNCHANGED <<ppVars, unVars, mainVars>>
        \/ DetIncludeNumber(run) /\ UNCHANGED <<ppVars, unVars, mainVars>>
        \/ DetCapitalize(run) /\ UNCHANGED <<ppVars, unVars, mainVars>>
        \/ DetJoin(run) /\ UNCHANGED <<ppVars, unVars, mainVars>>

SpecDeterminism == InitDeterminism /\ [][NextDeterminism]_vars

(* Properties of the two seeded runs, under SpecDeterminism *)

DetBothDone == detPc[1] = "done" /\ detPc[2] = "done"

----------------------------------------------------------------------------
(* username.rs *)

\* largest word length of the Maximum band (usize::MAX, cut to the integers
\* of the model checker)
USIZE_MAX == 2147483647

Strengths == {"Basic", "Standard", "Strong", "Maximum"}

\* UsernameStrength::min_length
min_length(strength) ==
    CASE strength = "Basic" -> 3
      [] strength = "Standard" -> 5
      [] strength = "Strong" -> 7
      [] strength = "Maximum" -> 9

\* UsernameStrength::max_length
max_length(strength) ==
    CASE strength = "Basic" -> 4
      [] strength = "Standard" -> 6
      [] strength = "Strong" -> 8
      [] strength = "Maximum" -> USIZE_MAX

filter_words_no_upper_bound(strength) ==
    SelectSeq(EFF_LONG_WORD_LIST,
              LAMBDA word : str_len(word) >= min_length(strength))

\* UsernameStrength::filter_words
filter_words(strength) ==
    SelectSeq(EFF_LONG_WORD_LIST,
              LAMBDA word : /\ str_len(word) >= min_length(strength)
                            /\ str_len(word) <= max_length(strength))

None == [some |-> FALSE]
Some(value) == [some |-> TRUE, value |-> value]

S_github == <<"g","i","t","h","u","b">>
S_user_at_domain == <<"u","s","e","r","@","d","o","m","a","i","n",".","c","o","m">>
S_domain == <<"d","o","m","a","i","n",".","c","o","m">>

\* website names of a WebsiteName append type
WebsiteNames == { <<>>, <<" ">>, S_github }

AppendTypes ==
    {[type |-> "Random"]}
    \cup {[type |-> "WebsiteName", website |-> w] : w \in WebsiteNames}

Emails ==
    { <<>>,
      <<" "," "," "," "," ">>,
      <<"a","@","b">>,
      <<"a","b","@","c">>,
      <<"a","b","c","d","e">>,
      <<"a","@","b","@","c">>,
      <<"LOCK","@">>,
      <<" ","@"," "," "," ">>,
      S_user_at_domain }

Domains == { <<>>, <<" ">>, S_domain }

\* values of one credential field
Fields == { <<>>, <<" ">>, <<"k">> }

ForwarderServices ==
    [service : {"AddyIo"}, api_token : Fields, domain : Fields, base_url : Fields]
    \cup [service : {"DuckDuckGo"}, token : Fields]
    \cup [service : {"Firefox"}, api_token : Fields]
    \cup [service : {"Fastmail"}, api_token : Fields]
    \cup [service : {"ForwardEmail"}, api_token : Fields, domain : Fields]
    \cup [service : {"SimpleLogin"}, api_key : Fields, base_url : Fields]

WebsiteHints == {None, Some(S_github), Some(<<"a"," ","b">>)}

UsernameRequests ==
    [variant : {"Word"}, capitalize : BOOLEAN, include_number : BOOLEAN,
     strength : Strengths]
    \cup [variant : {"Subaddress"}, type : AppendTypes, email : Emails]
    \cup [variant : {"Catchall"}, type : AppendTypes, domain : Domains]
    \cup [variant : {"Forwarded"}, service : ForwarderServices,
          website : WebsiteHints]

Err(name) == [kind |-> "Err", error |-> name]
InvalidEmail(email) == [kind |-> "Err", error |-> "InvalidEmail", email |-> email]
IncompleteApiConfig(service) ==
    [kind |-> "Err", error |-> "IncompleteApiConfig", service |-> service]
Unit == Ok(<<>>)

is_blank(s) == trim(s) = <<>>

validate_email_without_length(email) ==
    IF is_blank(email) \/ ~str_contains(email, <<"@">>)
    THEN InvalidEmail(email)
    ELSE Unit

\* validate_email
validate_email(email) ==
    IF is_blank(email) \/ ~str_contains(email, <<"@">>) \/ str_len(email) < 5
    THEN InvalidEmail(email)
    ELSE Unit

\* validate_append_type
validate_append_type(append_type) ==
    IF append_type.type = "Random" THEN Unit
    ELSE IF is_blank(append_type.website) THEN Err("EmptyWebsiteName")
    ELSE Unit

\* validate_forwarder_service
validate_forwarder_service(service) ==
    CASE service.service = "AddyIo" ->
           IF is_blank(service.api_token) \/ is_blank(service.domain)
           THEN IncompleteApiConfig("AddyIo") ELSE Unit
      [] service.service = "DuckDuckGo" ->
           IF is_blank(service.token)
           THEN IncompleteApiConfig("DuckDuckGo") ELSE Unit
      [] service.service = "Firefox" ->
           IF is_blank(service.api_token)
           THEN IncompleteApiConfig("Firefox") ELSE Unit
      [] service.service = "Fastmail" ->
           IF is_blank(service.api_token)
           THEN IncompleteApiConfig("Fastmail") ELSE Unit
      [] service.service = "ForwardEmail" ->
           IF is_blank(service.api_token) \/ is_blank(service.domain)
           THEN IncompleteApiConfig("ForwardEmail") ELSE Unit
      [] service.service = "SimpleLogin" ->
           IF is_blank(service.api_key)
           THEN IncompleteApiConfig("SimpleLogin") ELSE Unit

\* UsernameGeneratorRequest::validate
validate(input) ==
    CASE input.variant = "Word" -> Unit
      [] input.variant = "Subaddress" ->
           IF validate_email(input.email).kind = "Err"
           THEN validate_email(input.email)
           ELSE validate_append_type(input.type)
      [] input.variant = "Catchall" ->
           IF is_blank(input.domain) THEN Err("EmptyDomain")
           ELSE validate_append_type(input.type)
      [] input.variant = "Forwarded" ->
           validate_forwarder_service(input.service)

\* format!("{num:0>4}"): the text padded on the left with zeros to a width
pad_left_zero(text, width) ==
    [i \in 1..(width - Len(text)) |-> "0"] \o text

\* random_number: one draw, k draws after the current one
random_number(rng, k) == pad_left_zero(to_decimal(gen_range(rng, k, 0, 10000)), 4)

\* username_word
username_word(rng, capitalize, include_number, strength) ==
    LET filtered_words == filter_words(strength)
        word_list == IF filtered_words = <<>> THEN EFF_LONG_WORD_LIST
                     ELSE filtered_words
        word == choose(rng, 0, word_list)
        cased == IF capitalize THEN capitalize_first_letter(word) ELSE word
    IN  [value |-> IF include_number THEN cased \o random_number(rng, 1)
                   ELSE cased,
         rng |-> Advance(rng, IF include_number THEN 2 ELSE 1)]

LOWERCASE_ALPHANUMERICAL == LowerLetters \o
    <<"1","2","3","4","5","6","7","8","9","0">>

\* random_lowercase_string: length draws from the 36 symbols
random_lowercase_string(rng, length) ==
    [i \in 1..length |-> choose(rng, i - 1, LOWERCASE_ALPHANUMERICAL)]

\* the places of character c in s
PlacesOf(s, c) == {i \in 1..Len(s) : s[i] = c}

rsplit_once(s, c) ==
    LET i == CHOOSE i \in PlacesOf(s, c) : \A j \in PlacesOf(s, c) : j <= i
    IN  [before |-> SubSeq(s, 1, i - 1), after |-> SubSeq(s, i + 1, Len(s))]

\* str::split_once on a string that contains c: the parts before and after
\* the first c
split_once(s, c) ==
    LET i == CHOOSE i \in PlacesOf(s, c) : \A j \in PlacesOf(s, c) : i <= j
    IN  [before |-> SubSeq(s, 1, i - 1), after |-> SubSeq(s, i + 1, Len(s))]

\* the middle segment of username_subaddress and username_catchall
email_middle(rng, type) ==
    IF type.type = "Random" THEN random_lowercase_string(rng, 8)
    ELSE type.website

\* username_subaddress
username_subaddress(rng, type, email) ==
    LET parts == split_once(email, "@")
    IN  [value |-> parts.before \o <<"+">> \o email_middle(rng, type)
                   \o <<"@">> \o parts.after,
         rng |-> Advance(rng, IF type.type = "Random" THEN 8 ELSE 0)]

\* username_catchall
username_catchall(rng, type, domain) ==
    [value |-> email_middle(rng, type) \o <<"@">> \o domain,
     rng |-> Advance(rng, IF type.type = "Random" THEN 8 ELSE 0)]

----------------------------------------------------------------------------
(* username_forwarders *)

\* what the provider answers: no answer at all (status 0: the transport
\* failed), or a status with, on success, the body's alias field
Alias == <<"n","e","w","@","s","l">>
Responses ==
    {[status |-> 0, alias |-> None], [status |-> 401, alias |-> None],
     [status |-> 500, alias |-> None], [status |-> 201, alias |-> Some(Alias)],
     [status |-> 200, alias |-> None]}

is_success(status) == status >= 200 /\ status <= 299

\* urlencoding::encode: unreserved characters stay, the others are
\* percent-encoded byte by byte
url_encode_char(c) ==
    CASE c = " " -> <<"%","2","0">>
      [] c = "@" -> <<"%","4","0">>
      [] c = "LOCK" -> <<"%","F","0","%","9","F","%","9","4","%","9","2">>
      [] OTHER -> <<c>>

RECURSIVE url_encode(_)
url_encode(s) ==
    IF s = <<>> THEN <<>> ELSE url_encode_char(Head(s)) \o url_encode(Tail(s))

\* an adapter that takes every failure status alike and always names a host
simplelogin_generate_uniform(api_key, api_url, website, response) ==
    LET request == [method |-> "POST", service |-> "SimpleLogin",
                    base |-> api_url, path |-> "/api/alias/random/new",
                    hostname |-> Some(IF website.some
                                      THEN url_encode(website.value) ELSE <<>>),
                    authentication |-> api_key]
    IN  [http |-> <<request>>,
         result |-> IF response.status = 0 THEN Err("Http")
                    ELSE IF ~is_success(response.status) THEN Err("Http")
                    ELSE IF ~response.alias.some THEN Err("Http")
                    ELSE Ok(response.alias.value)]

\* simplelogin::generate_internal: the request sent and the result mapped
\* from the response; status 0 stands for a request that got no response,
\* and a response without alias for a body that does not parse
simplelogin_generate(api_key, api_url, website, response) ==
    LET request == [method |-> "POST", service |-> "SimpleLogin",
                    base |-> api_url, path |-> "/api/alias/random/new",
                    hostname |-> IF website.some
                                 THEN Some(url_encode(website.value)) ELSE None,
                    authentication |-> api_key]
    IN  [http |-> <<request>>,
         result |-> IF response.status = 0 THEN Err("Http")
                    ELSE IF response.status = 401 THEN Err("InvalidApiKey")
                    ELSE IF ~is_success(response.status) THEN Err("Http")
                    ELSE IF ~response.alias.some THEN Err("Http")
                    ELSE Ok(response.alias.value)]

\* the five adapters whose sources are not part of the examined material:
\* one request to the provider, the result mapped from the status
other_adapter_generate(service, website, response) ==
    LET request == [method |-> "POST", service |-> service.service]
    IN  [http |-> <<request>>,
         result |-> IF response.status = 0 THEN Err("Http")
                    ELSE IF response.status = 401 THEN Err("InvalidApiKey")
                    ELSE IF ~is_success(response.status) THEN Err("Http")
                    ELSE IF ~response.alias.some THEN Err("Http")
                    ELSE Ok(response.alias.value)]

\* ForwarderServiceType::generate
forwarder_generate(service, website, response) ==
    IF service.service = "SimpleLogin"
    THEN simplelogin_generate(service.api_key, service.base_url, website, response)
    ELSE other_adapter_generate(service, website, response)

generate_username_validating_last(input, tape, response) ==
    [result |-> validate(input),
     rng |-> Advance(NewRng(tape), 1),
     http |-> IF input.variant = "Forwarded"
              THEN forwarder_generate(input.service, input.website, response).http
              ELSE <<>>]

\* generate_username: the result, the thread generator as the call leaves it
\* (NoRng when the call never asked for it) and the HTTP requests it issued
generate_username(input, tape, response) ==
    IF validate(input).kind = "Err"
    THEN [result |-> validate(input), rng |-> NoRng, http |-> <<>>]
    ELSE CASE input.variant = "Word" ->
                LET out == username_word(NewRng(tape), input.capitalize,
                                         input.include_number, input.strength)
                IN  [result |-> Ok(out.value), rng |-> out.rng, http |-> <<>>]
           [] input.variant = "Subaddress" ->
                LET out == username_subaddress(NewRng(tape), input.type, input.email)
                IN  [result |-> Ok(out.value), rng |-> out.rng, http |-> <<>>]
           [] input.variant = "Catchall" ->
                LET out == username_catchall(NewRng(tape), input.type, input.domain)
                IN  [result |-> Ok(out.value), rng |-> out.rng, http |-> <<>>]
           [] input.variant = "Forwarded" ->
                LET out == forwarder_generate(input.service, input.website, response)
                IN  [result |-> out.result, rng |-> NoRng, http |-> out.http]

UNInit == UNParked

\* the generate_username command, on any request, with any generator stream
\* and any answer of the provider
GenerateUsername ==
    /\ unPhase = "idle"
    /\ \E input \in UsernameRequests, tape \in Tapes, response \in Responses :
         LET out == generate_username(input, tape, response)
         IN  /\ unRequest' = input
             /\ unRng' = out.rng
             /\ unHttp' = out.http
             /\ unResponse' = IF out.http = <<>> THEN None ELSE Some(response)
             /\ unResult' = out.result
    /\ unPhase' = "done"

InitUsername == UNInit /\ PPParked /\ DetParked /\ MainParked

NextUsername == GenerateUsername /\ UNCHANGED <<ppVars, detVars, mainVars>>

SpecUsername == InitUsername /\ [][NextUsername]_vars

----------------------------------------------------------------------------
(* Properties of the passphrase generator, under SpecPassphrase *)

PPDone == ppPhase = "done"
PPOk == ppPhase = "done" /\ ppResult.kind = "Ok"

\* the characters of all words of a list
CharsOf(words) == UNION {RangeOf(words[i]) : i \in 1..Len(words)}

\* the number of decimal digits in a string
DigitCount(s) == Cardinality({i \in 1..Len(s) : is_ascii_digit(s[i])})

\* the words of a list that contain a decimal digit
WordsWithDigit(words) ==
    {i \in 1..Len(words) : \E k \in 1..Len(words[i]) : is_ascii_digit(words[i][k])}

C2_SeparatorCount_AsStated ==
    (/\ PPOk
     /\ ppRequest.word_separator # <<>>
     /\ \A i \in 1..Len(ppFinal) :
          /\ ~str_contains(ppWords[i], ppRequest.word_separator)
          /\ ~str_contains(ppFinal[i], ppRequest.word_separator))
    => matches_count(ppResult.value, ppRequest.word_separator)
         = ppRequest.num_words - 1

\* C2 amended: for a non-empty word_separator none of whose characters occurs
\* in a generated word (as it stands after the digit and the capitalization),
\* the passphrase contains exactly num_words - 1 occurrences of the separator.
C2_SeparatorCount ==
    (/\ PPOk
     /\ ppRequest.word_separator # <<>>
     /\ RangeOf(ppRequest.word_separator) \cap CharsOf(ppFinal) = {})
    => matches_count(ppResult.value, ppRequest.word_separator)
         = ppRequest.num_words - 1

C2_Witness ==
    /\ PPOk
    /\ ppRequest.word_separator = <<"LOCK">>
    /\ ppRequest.num_words = 3
    /\ matches_count(ppResult.value, <<"LOCK">>) = 2

\* C3: with include_number the generation adds exactly one decimal digit,
\* appended at the end of exactly one word, and leaves every other word
\* without a digit; without include_number no word receives a digit.
C3_OneDigitOneWord ==
    PPOk =>
        IF ppRequest.include_number
        THEN /\ \E i \in 1..Len(ppWords) :
                  /\ \E d \in RangeOf(DecimalDigits) :
                       ppNumbered[i] = ppWords[i] \o <<d>>
                  /\ \A j \in 1..Len(ppWords) :
                       j # i => ppNumbered[j] = ppWords[j]
             /\ Cardinality(WordsWithDigit(ppNumbered)) = 1
             /\ Cardinality(WordsWithDigit(ppFinal)) = 1
             /\ DigitCount(join(ppFinal, <<>>)) = 1
        ELSE /\ ppNumbered = ppWords
             /\ WordsWithDigit(ppFinal) = {}

C3_Witness ==
    /\ PPOk
    /\ ppRequest.include_number
    /\ \E i \in 2..Len(ppWords) : ppNumbered[i] # ppWords[i]

\* C5: with capitalize the first character of every word is upper-cased and
\* the rest of the word is unchanged; the digit of include_number is appended
\* before the capitalization, so the word carrying it is capitalized like the
\* others and its digit stays last.
C5_CapitalizeEveryWord ==
    (PPOk /\ ppRequest.capitalize) =>
        /\ Len(ppFinal) = ppRequest.num_words
        /\ \A i \in 1..Len(ppFinal) :
             /\ \E k \in 1..26 :
                  /\ ppWords[i][1] = LowerLetters[k]
                  /\ ppFinal[i][1] = UpperLetters[k]
             /\ Tail(ppFinal[i]) = Tail(ppNumbered[i])
        /\ ppRequest.include_number =>
             \E i \in 1..Len(ppFinal) :
                /\ is_ascii_digit(ppFinal[i][Len(ppFinal[i])])
                /\ Len(ppFinal[i]) = Len(ppWords[i]) + 1
                /\ ppFinal[i][1] \in RangeOf(UpperLetters)
        /\ ppResult.value = join(ppFinal, ppRequest.word_separator)

C5_Witness ==
    /\ PPOk
    /\ ppRequest.capitalize
    /\ ppRequest.include_number
    /\ \E i \in 2..Len(ppFinal) : is_ascii_digit(ppFinal[i][Len(ppFinal[i])])

----------------------------------------------------------------------------
(* Properties of the username generator, under SpecUsername *)

UNDone == unPhase = "done"
UNIs(variant) == unPhase = "done" /\ unRequest.variant = variant
IsErr(result, name) == result.kind = "Err" /\ result.error = name

\* a string with a character that is not white space
NonBlank(s) == \E i \in 1..Len(s) : s[i] \notin {" ", "TAB"}

ValidationErrors ==
    {"InvalidEmail", "EmptyDomain", "EmptyWebsiteName", "IncompleteApiConfig"}

\* the credential fields of a provider as the claim lists them
ClaimedCredentials(service) ==
    CASE service.service = "AddyIo" ->
           {service.api_token, service.domain, service.base_url}
      [] service.service = "DuckDuckGo" -> {service.token}
      [] service.service = "Firefox" -> {service.api_token}
      [] service.service = "Fastmail" -> {service.api_token}
      [] service.service = "ForwardEmail" -> {service.api_token, service.domain}
      [] service.service = "SimpleLogin" -> {service.api_key, service.base_url}

\* C6: a Forwarded request fails validation with IncompleteApiConfig naming
\* the selected provider whenever one of that provider's credential fields
\* (base_url included, for AddyIo and SimpleLogin) is empty after trimming,
\* and passes only when all of them are non-empty.
C6_ForwarderCredentials_AsStated ==
    UNIs("Forwarded") =>
        IF \E field \in ClaimedCredentials(unRequest.service) : ~NonBlank(field)
        THEN unResult = [kind |-> "Err", error |-> "IncompleteApiConfig",
                         service |-> unRequest.service.service]
        ELSE ~IsErr(unResult, "IncompleteApiConfig")

\* C7: generate_username validates first: a request that fails validation
\* gets its validation error with no random draw made and no HTTP request
\* issued, and no validation error is ever returned after a draw or a request.
C7_ValidationFirst ==
    UNDone =>
        /\ validate(unRequest).kind = "Err" =>
             /\ unResult = validate(unRequest)
             /\ unResult.error \in ValidationErrors
             /\ unRng = NoRng
             /\ unHttp = <<>>
        /\ (unResult.kind = "Err" /\ unResult.error \in ValidationErrors) =>
             /\ unRng = NoRng
             /\ unHttp = <<>>

C7_Witness ==
    /\ UNIs("Forwarded")
    /\ unRequest.service.service = "DuckDuckGo"
    /\ unRequest.service.token = <<" ">>
    /\ IsErr(unResult, "IncompleteApiConfig")
    /\ unHttp = <<>>

\* C8: a Subaddress request is accepted exactly when its email is non-empty
\* after trimming, contains '@' and is at least 5 bytes long, and its append
\* type is Random or a WebsiteName that is non-empty after trimming; a bad
\* email yields InvalidEmail carrying the email, whatever the website, and a
\* good email with an empty website yields EmptyWebsiteName.
C8_SubaddressValidation ==
    UNIs("Subaddress") =>
        LET email == unRequest.email
            type == unRequest.type
            goodEmail == /\ NonBlank(email)
                         /\ "@" \in RangeOf(email)
                         /\ str_len(email) >= 5
            goodType == type.type = "Random" \/ NonBlank(type.website)
        IN  /\ (unResult.kind = "Ok") <=> (goodEmail /\ goodType)
            /\ ~goodEmail =>
                 unResult = [kind |-> "Err", error |-> "InvalidEmail",
                             email |-> email]
            /\ (goodEmail /\ ~goodType) =>
                 unResult = [kind |-> "Err", error |-> "EmptyWebsiteName"]

C8_Witness ==
    /\ UNIs("Subaddress")
    /\ unRequest.email = <<"a","b","@","c">>
    /\ unRequest.type = [type |-> "WebsiteName", website |-> <<>>]
    /\ IsErr(unResult, "InvalidEmail")
    /\ unResult.email = <<"a","b","@","c">>

\* the 36 symbols a-z0-9
Alphabet36 == RangeOf(LowerLetters) \cup RangeOf(DecimalDigits)

\* text is head, then a middle as the append type asks for it, then tail
HasMiddle(text, head, type, tail) ==
    IF type.type = "WebsiteName"
    THEN text = head \o type.website \o tail
    ELSE /\ Len(text) = Len(head) + 8 + Len(tail)
         /\ text = head \o SubSeq(text, Len(head) + 1, Len(head) + 8) \o tail
         /\ \A k \in (Len(head) + 1)..(Len(head) + 8) : text[k] \in Alphabet36

\* C9: a validated Subaddress request yields {local}+{middle}@{domain} with
\* local and domain the parts of the email before and after its first '@', a
\* validated Catchall request yields {middle}@{domain}; middle is the website
\* name verbatim, or 8 characters over a-z0-9 for Random.
C9_SubaddressCatchallFormat ==
    /\ (UNIs("Subaddress") /\ unResult.kind = "Ok") =>
         /\ \E i \in 1..Len(unRequest.email) :
              /\ unRequest.email[i] = "@"
              /\ \A j \in 1..(i - 1) : unRequest.email[j] # "@"
              /\ HasMiddle(unResult.value,
                           SubSeq(unRequest.email, 1, i - 1) \o <<"+">>,
                           unRequest.type,
                           <<"@">> \o SubSeq(unRequest.email, i + 1,
                                             Len(unRequest.email)))
         /\ (/\ unRequest.email = S_user_at_domain
             /\ unRequest.type = [type |-> "WebsiteName", website |-> S_github])
            => unResult.value =
                 <<"u","s","e","r","+","g","i","t","h","u","b","@",
                   "d","o","m","a","i","n",".","c","o","m">>
    /\ (UNIs("Catchall") /\ unResult.kind = "Ok") =>
         HasMiddle(unResult.value, <<>>, unRequest.type,
                   <<"@">> \o unRequest.domain)

C9_Witness ==
    /\ UNIs("Subaddress")
    /\ unRequest.email = <<"a","@","b","@","c">>
    /\ unRequest.type.type = "Random"
    /\ unResult.kind = "Ok"
    /\ unRng.pos = 8

\* C10: a Word request yields a list word whose length lies in the band of
\* the requested strength (Basic 3-4, Standard 5-6, Strong 7-8, Maximum 9 or
\* more), followed by exactly four decimal digits when include_number is set
\* and by nothing otherwise, with only its first character upper-cased when
\* capitalize is set and no upper-case character otherwise.
C10_WordUsername ==
    UNIs("Word") =>
        /\ unResult.kind = "Ok"
        /\ LET text == unResult.value
               n == Len(text) - (IF unRequest.include_number THEN 4 ELSE 0)
               word == SubSeq(text, 1, n)
           IN  /\ CASE unRequest.strength = "Basic" -> n \in 3..4
                    [] unRequest.strength = "Standard" -> n \in 5..6
                    [] unRequest.strength = "Strong" -> n \in 7..8
                    [] unRequest.strength = "Maximum" -> n >= 9
               /\ \E w \in RangeOf(EFF_LONG_WORD_LIST) :
                    /\ Tail(w) = Tail(word)
                    /\ IF unRequest.capitalize
                       THEN \E k \in 1..26 : /\ w[1] = LowerLetters[k]
                                             /\ word[1] = UpperLetters[k]
                       ELSE w[1] = word[1]
               /\ \A k \in 1..Len(text) :
                    /\ is_ascii_digit(text[k]) <=> k > n
                    /\ text[k] \in RangeOf(UpperLetters)
                         <=> (unRequest.capitalize /\ k = 1)

C10_Witness ==
    /\ UNIs("Word")
    /\ unRequest.strength = "Maximum"
    /\ unRequest.include_number
    /\ unRequest.capitalize
    /\ unResult.kind = "Ok"
    /\ SubSeq(unResult.value, 10, 13) = <<"0","0","0","0">>

----------------------------------------------------------------------------
(* The username evaluation of main.rs: evaluate_username_security and the  *)
(* functions it calls.  Lengths and split positions are byte counts, as in *)
(* the source.                                                             *)

\* char::to_lowercase, on every character of a string (str::to_lowercase)
to_lowercase(s) ==
    [i \in 1..Len(s) |->
        IF s[i] \in RangeOf(UpperLetters)
        THEN LowerLetters[CHOOSE k \in 1..26 : UpperLetters[k] = s[i]]
        ELSE s[i]]

\* char::is_numeric
is_numeric(c) == c \in RangeOf(DecimalDigits)
\* char::is_alphabetic
is_alphabetic(c) == c \in RangeOf(LowerLetters) \cup RangeOf(UpperLetters)

\* str::ends_with
ends_with(s, p) == Len(p) <= Len(s) /\ MatchAt(s, p, Len(s) - Len(p) + 1)

RECURSIVE trim_end_matches_numeric(_)
\* str::trim_end_matches(|c| c.is_numeric())
trim_end_matches_numeric(s) ==
    IF s # <<>> /\ is_numeric(s[Len(s)])
    THEN trim_end_matches_numeric(SubSeq(s, 1, Len(s) - 1)) ELSE s

\* a call that returned v, and a call that panicked
Returned(v) == [panic |-> FALSE, value |-> v]
Panicked == [panic |-> TRUE]

\* a word list that holds nothing
in_empty_word_list(w) == FALSE

\* EFF_LONG_WORD_LIST.contains
in_word_list(w) == w \in RangeOf(EFF_LONG_WORD_LIST)

\* the byte offsets of s that are character boundaries (str::is_char_boundary)
char_boundaries(s) == {str_len(SubSeq(s, 1, k)) : k \in 0..Len(s)}

RECURSIVE compound_split_from(_, _)
\* the loop of is_compound_eff_word and of is_compound_word from split
\* position i on: str::split_at gives the two parts of the word around byte
\* offset i, and panics on an offset inside a character
compound_split_from(word, i) ==
    IF i > str_len(word) - 3 THEN Returned(FALSE)
    ELSE IF i \notin char_boundaries(word) THEN Panicked
    ELSE LET k == CHOOSE k \in 0..Len(word) : str_len(SubSeq(word, 1, k)) = i
             parts == <<SubSeq(word, 1, k), SubSeq(word, k + 1, Len(word))>>
         IN  IF /\ str_len(parts[1]) >= 3 /\ str_len(parts[2]) >= 3
                /\ in_word_list(parts[1]) /\ in_word_list(parts[2])
             THEN Returned(TRUE)
             ELSE compound_split_from(word, i + 1)

\* a check that finds no compound
is_compound_eff_word_never(word) == Returned(FALSE)

is_compound_eff_word(word) ==
    IF str_len(word) < 6 \/ str_len(word) > 20 THEN Returned(FALSE)
    ELSE compound_split_from(word, 3)

is_compound_word(word) ==
    IF str_len(word) < 6 \/ str_len(word) > 20 THEN Returned(FALSE)
    ELSE compound_split_from(word, 3)

\* word is a list word of at least 3 bytes followed by one of the suffixes
has_root_with_suffix(word, suffixes) ==
    \E suffix \in suffixes :
        /\ ends_with(word, suffix)
        /\ LET root == SubSeq(word, 1, Len(word) - Len(suffix))
           IN  str_len(root) >= 3 /\ in_word_list(root)

is_word_variation(word) ==
    \/ has_root_with_suffix(word,
          {<<"s">>, <<"e","s">>, <<"e","d">>, <<"i","n","g">>, <<"e","r">>, <<"e","s","t">>, <<"l","y">>, <<"t","i","o","n">>, <<"s","i","o","n">>,
           <<"n","e","s","s">>, <<"m","e","n","t">>, <<"a","b","l","e">>, <<"i","b","l","e">>})
    \/ \E prefix \in {<<"u","n">>, <<"r","e">>, <<"p","r","e">>, <<"d","i","s">>, <<"m","i","s">>, <<"o","v","e","r">>, <<"u","n","d","e","r">>, <<"o","u","t">>} :
          /\ MatchAt(word, prefix, 1)
          /\ LET root == SubSeq(word, Len(prefix) + 1, Len(word))
             IN  str_len(root) >= 3 /\ in_word_list(root)

is_word_with_common_suffix(word) ==
    \/ has_root_with_suffix(word,
          {<<"1">>, <<"2">>, <<"3">>, <<"4">>, <<"5">>, <<"6">>, <<"7">>, <<"8">>, <<"9">>, <<"0">>,
           <<"1","2">>, <<"1","2","3">>, <<"0","1">>, <<"0","2">>, <<"0","3">>, <<"9","9">>, <<"0","0">>})
    \/ /\ str_len(word) >= 7
       /\ has_root_with_suffix(word, {to_decimal(year) : year \in 1990..2024})

is_weak_dictionary_pattern(word) ==
    \/ is_word_variation(word)
    \/ is_word_with_common_suffix(word)
    \/ \E pattern \in {<<"p","a","s","s","w","o","r","d">>, <<"u","s","e","r","n","a","m","e">>, <<"a","c","c","o","u","n","t">>, <<"p","r","o","f","i","l","e">>, <<"l","o","g","i","n">>,
                       <<"a","d","m","i","n">>, <<"u","s","e","r">>, <<"g","u","e","s","t">>, <<"t","e","s","t">>, <<"d","e","m","o">>, <<"t","e","m","p">>} :
          str_contains(word, pattern)

\* a classification that accepts any number of trailing digits after a word
is_likely_generated_username_any_digits(username) ==
    LET username_lower == to_lowercase(username)
        base_word == trim_end_matches_numeric(username_lower)
    IN  IF /\ str_len(base_word) >= 3 /\ base_word # username_lower
           /\ in_word_list(base_word)
        THEN Returned(TRUE)
        ELSE IF str_len(username_lower) >= 7 /\ in_word_list(username_lower)
        THEN Returned(TRUE)
        ELSE is_compound_eff_word(username_lower)

is_likely_generated_username(username) ==
    LET username_lower == to_lowercase(username)
        base_word == trim_end_matches_numeric(username_lower)
    IN  IF /\ str_len(base_word) >= 3 /\ base_word # username_lower
           /\ in_word_list(base_word)
           /\ str_len(username_lower) - str_len(base_word) = 4
        THEN Returned(TRUE)
        ELSE IF str_len(username_lower) >= 7 /\ in_word_list(username_lower)
        THEN Returned(TRUE)
        ELSE is_compound_eff_word(username_lower)

analyze_dictionary_usage(username) ==
    LET username_lower == to_lowercase(username)
        base_word == trim_end_matches_numeric(username_lower)
        has_numbers == base_word # username_lower
        of_base == IF has_numbers /\ str_len(base_word) >= 3 /\ ~in_word_list(base_word)
                   THEN is_compound_eff_word(base_word) ELSE Returned(FALSE)
        of_whole == is_compound_eff_word(username_lower)
        of_words == is_compound_word(username_lower)
        SecureEFFWord(word) ==
            Returned([kind |-> "SecureEFFWord", word_length |-> str_len(word)])
    IN  IF in_word_list(username_lower)
        THEN SecureEFFWord(username_lower)
        ELSE IF has_numbers /\ str_len(base_word) >= 3 /\ in_word_list(base_word)
        THEN SecureEFFWord(base_word)
        ELSE IF of_base.panic THEN Panicked
        ELSE IF of_base.value THEN SecureEFFWord(base_word)
        ELSE IF of_whole.panic THEN Panicked
        ELSE IF of_whole.value THEN SecureEFFWord(username_lower)
        ELSE IF of_words.panic THEN Panicked
        ELSE IF of_words.value THEN Returned([kind |-> "CompoundWords"])
        ELSE IF is_weak_dictionary_pattern(username_lower)
        THEN Returned([kind |-> "WeakDictionary"])
        ELSE Returned([kind |-> "NonDictionary"])

\* the check without the age patterns
contains_personal_info_patterns_no_age(username) ==
    \/ \E year \in {<<"1","9","9">>, <<"2","0","0">>, <<"2","0","1">>} : str_contains(username, year)
    \/ \E pattern \in {<<"n","a","m","e">>, <<"r","e","a","l">>, <<"o","f","f","i","c","i","a","l">>, <<"p","e","r","s","o","n","a","l">>, <<"m","y">>, <<"t","h","e">>} :
          str_contains(username, pattern)

contains_personal_info_patterns(username) ==
    \/ \E year \in {<<"1","9","9">>, <<"2","0","0">>, <<"2","0","1">>} : str_contains(username, year)
    \/ \E pattern \in {<<"1","8">>, <<"1","9">>, <<"2","0">>, <<"2","1">>, <<"2","2">>, <<"2","3">>, <<"2","4">>, <<"2","5">>,
                       <<"3","0">>, <<"4","0">>, <<"5","0">>} : ends_with(username, pattern)
    \/ \E pattern \in {<<"n","a","m","e">>, <<"r","e","a","l">>, <<"o","f","f","i","c","i","a","l">>, <<"p","e","r","s","o","n","a","l">>, <<"m","y">>, <<"t","h","e">>} :
          str_contains(username, pattern)

contains_sequential_patterns(username) ==
    \E pattern \in {<<"1","2","3">>, <<"2","3","4">>, <<"3","4","5">>, <<"4","5","6">>, <<"5","6","7">>, <<"6","7","8">>, <<"7","8","9">>,
                    <<"a","b","c">>, <<"b","c","d">>, <<"c","d","e">>} : str_contains(username, pattern)

\* the terms of the common-word check, in the order of the source
common_words ==
    << <<"a","d","m","i","n">>, <<"a","d","m","i","n","i","s","t","r","a","t","o","r">>, <<"u","s","e","r">>, <<"g","u","e","s","t">>, <<"t","e","s","t">>, <<"d","e","m","o">>, <<"e","x","a","m","p","l","e">>,
       <<"f","a","c","e","b","o","o","k">>, <<"g","o","o","g","l","e">>, <<"a","p","p","l","e">>, <<"m","i","c","r","o","s","o","f","t">>, <<"a","m","a","z","o","n">>, <<"t","w","i","t","t","e","r">>, <<"i","n","s","t","a","g","r","a","m">>,
       <<"s","k","y","p","e">>, <<"d","i","s","c","o","r","d">>, <<"t","e","l","e","g","r","a","m">>, <<"w","h","a","t","s","a","p","p">>, <<"y","o","u","t","u","b","e">>, <<"n","e","t","f","l","i","x">>, <<"s","p","o","t","i","f","y">>,
       <<"p","a","s","s","w","o","r","d">>, <<"l","o","g","i","n">>, <<"e","m","a","i","l">>, <<"m","a","i","l">>, <<"c","o","n","t","a","c","t">>, <<"s","u","p","p","o","r","t">>, <<"h","e","l","p">>,
       <<"j","o","h","n">>, <<"j","a","n","e">>, <<"m","i","k","e">>, <<"s","a","r","a","h">>, <<"a","l","e","x">>, <<"c","h","r","i","s">>, <<"d","a","v","i","d">>, <<"m","a","r","y">>,
       <<"2","0","2","3">>, <<"2","0","2","4">>, <<"a","b","c">>, <<"q","w","e","r","t","y">>, <<"a","s","d","f">> >>

\* the scan of the common-word check: the position in common_words of the
\* first term the lower-cased username contains, 0 when it contains none
first_common_word(username_lower) ==
    LET matching == {i \in 1..Len(common_words) :
                        str_contains(username_lower, common_words[i])}
    IN  IF matching = {} THEN 0
        ELSE CHOOSE i \in matching : \A j \in matching : i <= j

\* `+=` on an accumulator of 6 bits
u6_add(a, b) == (a + b) % 64

\* `+=` on a u8
u8_add(a, b) == (a + b) % (U8_MAX + 1)
\* u8::saturating_sub
saturating_sub(a, b) == IF a > b THEN a - b ELSE 0

\* the texts of the feedback entries that contain "too short" or "Short"
ShortAdvisories ==
    {"Username is too short - minimum 3 characters recommended",
     "Short word from secure wordlist - consider longer username",
     "Short username - consider adding length for better security"}

\* ((privacy as f32 * 0.6) + (uniqueness as f32 * 0.4)) as u8: on every pair of
\* u8 values the f32 product and sum have the integer part of the exact value
overall_score(privacy_score, uniqueness_score) ==
    (6 * privacy_score + 4 * uniqueness_score) \div 10

\* no hard cap for short usernames
length_cap_absent(clamped_score, length) == clamped_score

\* the hard cap of the score of a username of at most 4 bytes
length_cap(clamped_score, length) ==
    IF length <= 4 /\ clamped_score > 25 THEN 25 ELSE clamped_score

\* the match of the score against the bands of security_level
security_level(clamped_score) ==
    IF clamped_score <= 25 THEN "Very Poor - High Risk"
    ELSE IF clamped_score <= 45 THEN "Poor - Easily Guessable"
    ELSE IF clamped_score <= 65 THEN "Fair - Some Privacy Concerns"
    ELSE IF clamped_score <= 80 THEN "Good - Reasonably Secure"
    ELSE "Excellent - Highly Secure"

\* A feedback entry is its text and, for the common-word entry, the term put
\* in place of {}.  The result carries the accumulators after each step.
evaluate_username_security(username) ==
    LET Entry(text) == [text |-> text, word |-> <<>>]
        Push(acc, text) == [acc EXCEPT !.feedback = Append(@, Entry(text))]
        Plus(acc, p, u) == [acc EXCEPT !.privacy = u8_add(@, p),
                                       !.uniqueness = u8_add(@, u)]
        Minus(acc, p, u) == [acc EXCEPT !.privacy = saturating_sub(@, p),
                                        !.uniqueness = saturating_sub(@, u)]
        username_lower == to_lowercase(username)
        generated == is_likely_generated_username(username_lower)
        is_generated == generated.value
        length == str_len(username)
        dict_analysis == analyze_dictionary_usage(username_lower)
        usage == dict_analysis.value
        start == [privacy |-> 0, uniqueness |-> 0, feedback |-> <<>>]
        length_step(acc) ==
            IF length < 3
            THEN Push(acc, "Username is too short - minimum 3 characters recommended")
            ELSE IF length >= 6 /\ length <= 20 THEN Plus(acc, 20, 15)
            ELSE IF length > 20
            THEN Plus(Push(acc, "Very long usernames may be memorable and stand out"), 10, 0)
            ELSE Plus(acc, 10, 0)
        dictionary_step(acc) ==
            CASE usage.kind = "SecureEFFWord" ->
                    IF length <= 4
                    THEN Push(Plus(acc, 5, 10),
                              "Short word from secure wordlist - consider longer username")
                    ELSE IF usage.word_length >= 7
                    THEN Push(Plus(acc, 20, 25),
                              "Uses cryptographically strong word - excellent choice")
                    ELSE IF usage.word_length >= 5
                    THEN Push(Plus(acc, 15, 20),
                              "Uses secure word from cryptographic wordlist")
                    ELSE Push(Plus(acc, 10, 15), "Uses word from secure wordlist")
              [] usage.kind = "WeakDictionary" ->
                    Push(Minus(acc, 15, 10),
                         "Contains easily guessable dictionary pattern")
              [] usage.kind = "CompoundWords" ->
                    Push(Plus(Minus(acc, 10, 0), 0, 5),
                         "Contains compound words - moderate security")
              [] usage.kind = "NonDictionary" ->
                    IF length <= 4
                    THEN Push(Plus(acc, 0, 10),
                              "Short username - consider adding length for better security")
                    ELSE Plus(acc, 0, 15)
        found == first_common_word(username_lower)
        common_step(acc) ==
            IF ~is_generated
            THEN IF found # 0
                 THEN Minus([acc EXCEPT !.feedback =
                                Append(@, [text |-> "Contains common word '{}' - reduces privacy",
                                           word |-> common_words[found]])],
                            30, 25)
                 ELSE IF length <= 4 THEN Plus(acc, 20, 15)
                 ELSE Plus(acc, 25, 20)
            ELSE Plus(acc, 25, 20)
        personal_step(acc) ==
            IF contains_personal_info_patterns(username_lower)
            THEN Minus(Push(acc, "May contain personal information patterns"), 25, 0)
            ELSE IF length <= 4 THEN Plus(acc, 10, 0)
            ELSE Plus(acc, 15, 0)
        has_numbers == \E i \in 1..Len(username) : is_numeric(username[i])
        has_letters == \E i \in 1..Len(username) : is_alphabetic(username[i])
        has_special == \E i \in 1..Len(username) :
                          ~(is_alphabetic(username[i]) \/ is_numeric(username[i]))
        mix_step(acc) ==
            IF has_letters /\ has_numbers
            THEN Push(Plus(acc, 0, 10), "Good mix of letters and numbers")
            ELSE acc
        special_step(acc) ==
            IF has_special
            THEN Push(Plus(acc, 0, 5), "Special characters add uniqueness")
            ELSE acc
        sequential_step(acc) ==
            IF ~is_generated /\ contains_sequential_patterns(username_lower)
            THEN Minus(Push(acc, "Contains sequential patterns - less secure"), 0, 15)
            ELSE acc
        boost_step(acc) ==
            IF is_generated
            THEN Push(Plus(acc, 15, 15), "Appears to be securely generated")
            ELSE acc
        \* the score, the level and the feedback from the final accumulators
        security(acc) ==
            LET overall == overall_score(acc.privacy, acc.uniqueness)
                clamped_score == length_cap(IF overall > 100 THEN 100 ELSE overall, length)
                capped_feedback ==
                    IF /\ length <= 4
                       /\ ~\E i \in 1..Len(acc.feedback) :
                              acc.feedback[i].text \in ShortAdvisories
                    THEN <<Entry("Very short username - highly vulnerable to guessing attacks")>>
                             \o acc.feedback
                    ELSE acc.feedback
                recommendations ==
                    IF clamped_score < 30
                    THEN <<Entry("Consider using a more unique username"),
                           Entry("Avoid common words and personal information")>>
                    ELSE IF clamped_score < 60
                    THEN <<Entry("Username security could be improved"),
                           Entry("Consider adding numbers or making it more unique")>>
                    ELSE IF clamped_score < 80 THEN <<Entry("Good username security")>>
                    ELSE <<Entry("Excellent username security")>>
            IN  [score |-> clamped_score,
                 security_level |-> security_level(clamped_score),
                 feedback |-> capped_feedback \o recommendations,
                 privacy_score |-> acc.privacy,
                 uniqueness_score |-> acc.uniqueness]
        after_length == length_step(start)
        after_dictionary == dictionary_step(after_length)
        after_common == common_step(after_dictionary)
        after_personal == personal_step(after_common)
        after_complexity == special_step(mix_step(after_personal))
        after_sequential == sequential_step(after_complexity)
        after_boost == boost_step(after_sequential)
    IN  IF generated.panic \/ dict_analysis.panic THEN Panicked
        ELSE [panic |-> FALSE,
              steps |-> [length |-> after_length, dictionary |-> after_dictionary,
                         common |-> after_common, personal |-> after_personal,
                         complexity |-> after_complexity,
                         sequential |-> after_sequential, boost |-> after_boost],
              value |-> security(after_boost)]

\* the usernames of the modelled calls: every word of the list and names
\* outside it, alone and followed by digits or a special character
Usernames ==
    LET stems ==
            RangeOf(EFF_LONG_WORD_LIST) \cup
            {<<>>, <<"a","b">>, <<"a","c","e">>, <<"LOCK">>, <<"S","k","y","p","e">>, <<"O","u","t","c","o","m","e">>, <<"o","u","t","c","o","m","e","a","b","i","d","e">>,
             <<"Q","u","i","e","t","R","a","v","e","n">>, <<"t","e","s","t">>, <<"a","b","i","d","e","s">>, <<"u","n","a","b","l","e">>, <<"a","d","m","i","n","i","s","t","r","a","t","o","r">>, <<"m","y","n","a","m","e">>,
             <<"x","k","q","z","v">>, <<"LOCK","a","b">>, <<"a","d","LOCK","a","d","m","i","n">>}
        endings ==
            {<<>>, <<"1">>, <<"2","1">>, <<"4","7">>, <<"1","2","3">>, <<"1","2","3","4">>, <<"2","0","2","4","1">>, <<"!">>, <<"1","1","1","1","1","1","1","1","1","1">>}
    IN  {stem \o ending : stem \in stems, ending \in endings}

\* the calculate_username_strength command, on any username; a panic of the
\* evaluation leaves the command without a result
CalculateUsernameStrength ==
    /\ evPhase = "idle"
    /\ \E username \in Usernames :
         LET out == evaluate_username_security(username)
         IN  /\ evUsername' = username
             /\ evSteps' = IF out.panic THEN <<>> ELSE out.steps
             /\ evResult' = IF out.panic THEN Panicked ELSE Returned(out.value)
    /\ evPhase' = "done"

\* nothing has been called yet
InitMain == PPParked /\ DetParked /\ UNParked /\ MainParked

InitEvaluator == InitMain

NextEvaluator ==
    CalculateUsernameStrength /\ UNCHANGED <<ppVars, detVars, unVars, cmdVars, ipVars, trayVars, saveVars>>

SpecEvaluator == InitEvaluator /\ [][NextEvaluator]_vars

----------------------------------------------------------------------------
(* calculate_password_strength of main.rs.  The estimator (the zxcvbn      *)
(* crate) is outside the examined sources: a call of it either fails or    *)
(* gives an estimate with a score in 0..4 and optional feedback.           *)

\* what zxcvbn(&password, &[]) can return: an error, or an estimate with its
\* score, and feedback that is absent or a warning (absent or present) and
\* suggestions
Estimates ==
    LET warnings == {None, Some("Top10CommonPassword"), Some("CommonNamesAndSurnames")}
        suggestions == {<<>>, <<"AddAnotherWordOrTwo">>, <<"NoNeedForSymbols">>,
                        <<"AddAnotherWordOrTwo", "NoNeedForSymbols">>,
                        <<"NoNeedForSymbols", "AddAnotherWordOrTwo">>}
        feedbacks == {None} \cup
                     {Some([warning |-> w, suggestions |-> s]) :
                         w \in warnings, s \in suggestions}
    IN  {Err("BlankPassword")} \cup
        {[kind |-> "Ok", score |-> score, feedback |-> f] :
            score \in 0..4, f \in feedbacks}

\* to_string of a warning or a suggestion of the estimator (its Display)
to_string(item) ==
    CASE item = "Top10CommonPassword" -> "This is a top-10 common password."
      [] item = "CommonNamesAndSurnames" -> "Common names and surnames are easy to guess."
      [] item = "AddAnotherWordOrTwo" -> "Add another word or two. Uncommon words are better."
      [] item = "NoNeedForSymbols" -> "No need for symbols, digits, or uppercase letters."

\* the suggestions first, the warning after them
strength_feedback_warning_last(feedback) ==
    IF ~feedback.some THEN <<>>
    ELSE [i \in 1..Len(feedback.value.suggestions) |->
             to_string(feedback.value.suggestions[i])]
         \o (IF feedback.value.warning.some
             THEN <<to_string(feedback.value.warning.value)>> ELSE <<>>)

\* the feedback list built from estimate.feedback()
strength_feedback(feedback) ==
    IF ~feedback.some THEN <<>>
    ELSE (IF feedback.value.warning.some
          THEN <<to_string(feedback.value.warning.value)>> ELSE <<>>)
         \o [i \in 1..Len(feedback.value.suggestions) |->
                to_string(feedback.value.suggestions[i])]

\* calculate_password_strength, on what the estimator returned for the password
calculate_password_strength(estimate) ==
    IF estimate.kind = "Err"
    THEN Err(CASE estimate.error = "BlankPassword" ->
                     "Zxcvbn cannot evaluate a blank password")
    ELSE Ok([score |-> IF 25 * estimate.score > U8_MAX THEN U8_MAX
                       ELSE 25 * estimate.score,
             crack_times_display |->
                 CASE estimate.score = 0 -> "Very weak - could be cracked instantly"
                   [] estimate.score = 1 -> "Weak - could be cracked in minutes"
                   [] estimate.score = 2 -> "Fair - could be cracked in hours to days"
                   [] estimate.score = 3 -> "Good - could take months to crack"
                   [] estimate.score = 4 -> "Strong - would take years to crack"
                   [] OTHER -> "Unknown strength",
             feedback |-> strength_feedback(estimate.feedback)])

\* the calculate_password_strength command, on any outcome of the estimator
CalculatePasswordStrength ==
    /\ cmdPhase = "idle"
    /\ \E estimate \in Estimates :
          /\ cmdCall' = [function |-> "calculate_password_strength",
                         estimate |-> estimate]
          /\ cmdResult' = <<calculate_password_strength(estimate)>>
    /\ cmdPhase' = "done"

----------------------------------------------------------------------------
(* mask_ip_address and format_machine_id of main.rs *)

\* longest string of the generated inputs of mask_ip_address
MaxIpLen == 4
\* longest machine id, in bytes
MaxMachineIdLen == 3

RECURSIVE split(_, _)
\* str::split(c).collect(): the parts of s between the occurrences of the
\* character c
split(s, c) ==
    IF \A i \in 1..Len(s) : s[i] # c THEN <<s>>
    ELSE LET k == CHOOSE k \in 1..Len(s) :
                     s[k] = c /\ \A j \in 1..(k - 1) : s[j] # c
         IN  <<SubSeq(s, 1, k - 1)>> \o split(SubSeq(s, k + 1, Len(s)), c)

\* masking that takes the two leading parts of any dotted input
mask_ip_address_any_dotted(ip) ==
    LET parts == split(ip, ".")
    IN  IF Len(parts) >= 2
        THEN parts[1] \o <<".">> \o parts[2] \o <<".","x","x","x",".","x","x","x">>
        ELSE IF str_contains(ip, <<":">>)
        THEN LET segments == split(ip, ":")
             IN  IF segments # <<>> /\ segments[1] # <<>>
                 THEN segments[1] \o <<":",":","x","x","x","x",":","x","x","x","x",":","x","x","x","x",":","x","x","x","x">>
                 ELSE <<"x","x","x","x",":",":","x","x","x","x",":","x","x","x","x",":","x","x","x","x",":","x","x","x","x">>
        ELSE <<"N","o","t"," ","a","v","a","i","l","a","b","l","e">>

mask_ip_address(ip) ==
    LET parts == split(ip, ".")
    IN  IF Len(parts) = 4
        THEN parts[1] \o <<".">> \o parts[2] \o <<".","x","x","x",".","x","x","x">>
        ELSE IF str_contains(ip, <<":">>)
        THEN LET segments == split(ip, ":")
             IN  IF segments # <<>> /\ segments[1] # <<>>
                 THEN segments[1] \o <<":",":","x","x","x","x",":","x","x","x","x",":","x","x","x","x",":","x","x","x","x">>
                 ELSE <<"x","x","x","x",":",":","x","x","x","x",":","x","x","x","x",":","x","x","x","x",":","x","x","x","x">>
        ELSE <<"N","o","t"," ","a","v","a","i","l","a","b","l","e">>

\* the inputs of the modelled calls of mask_ip_address: two addresses, and
\* every string of digits, letters, dots and colons up to the bound
MaskInputs ==
    {<<"1","9","2",".","1","6","8",".","1",".","1","0","0">>, <<"1","9","2",".","1","6","8",".","7",".","7">>, <<"2","0","0","1",":","d","b","8",":",":","1">>} \cup
    UNION {[1..n -> {"1", "a", ".", ":"}] : n \in 0..MaxIpLen}

\* a call of mask_ip_address
MaskIpAddress ==
    /\ cmdPhase = "idle"
    /\ \E ip \in MaskInputs :
          /\ cmdCall' = [function |-> "mask_ip_address", ip |-> ip]
          /\ cmdResult' = <<mask_ip_address(ip)>>
    /\ cmdPhase' = "done"

\* str::as_bytes: the UTF-8 bytes of a string
as_bytes(s) ==
    LET utf8(c) == CASE c = "a" -> <<97>>
                     [] c = "0" -> <<48>>
                     [] c = "LOCK" -> <<240, 159, 148, 146>>
        bytes[n \in 0..Len(s)] == IF n = 0 THEN <<>> ELSE bytes[n - 1] \o utf8(s[n])
    IN  bytes[Len(s)]

\* Sha256::new(), update(bytes), finalize(): the hash function (the sha2
\* crate) is outside the examined sources; this stand-in gives 32 bytes that
\* depend on every byte of the input and on its position
Sha256(bytes) ==
    LET sum[n \in 0..Len(bytes)] ==
            IF n = 0 THEN 7 ELSE (sum[n - 1] * 31 + bytes[n] + n) % 65521
    IN  [k \in 1..32 |-> ((sum[Len(bytes)] + 1) * (2 * k + 1) * 37) % 256]

\* format!("{:02x}", b): two lower-case hexadecimal digits
format_02x(b) ==
    LET digits == <<"0","1","2","3","4","5","6","7","8","9","a","b","c","d","e","f">>
    IN  <<digits[(b \div 16) + 1], digits[(b % 16) + 1]>>

\* format!("{:02X}", b): two upper-case hexadecimal digits
format_02X(b) ==
    LET digits == <<"0","1","2","3","4","5","6","7","8","9","A","B","C","D","E","F">>
    IN  <<digits[(b \div 16) + 1], digits[(b % 16) + 1]>>

format_machine_id(machine_id) ==
    LET result == Sha256(as_bytes(machine_id))
        hex_string == [i \in 1..16 |-> format_02X(result[(i + 1) \div 2])[2 - (i % 2)]]
    IN  <<"H","W","I","D","-">> \o SubSeq(hex_string, 1, 4) \o <<"-">> \o SubSeq(hex_string, 5, 8)
            \o <<"-">> \o SubSeq(hex_string, 9, 12) \o <<"-">> \o SubSeq(hex_string, 13, 16)

\* a first call of format_machine_id, on any machine id up to the bound
FormatMachineId ==
    /\ cmdPhase = "idle"
    /\ \E n \in 0..MaxMachineIdLen : \E machine_id \in [1..n -> {"a", "0", "LOCK"}] :
          /\ cmdCall' = [function |-> "format_machine_id", machine_id |-> machine_id]
          /\ cmdResult' = <<format_machine_id(machine_id)>>
    /\ cmdPhase' = "again"

\* a second call of format_machine_id on the same machine id
FormatMachineIdAgain ==
    /\ cmdPhase = "again"
    /\ cmdResult' = Append(cmdResult, format_machine_id(cmdCall.machine_id))
    /\ cmdPhase' = "done"
    /\ UNCHANGED cmdCall

\* impl From<PasswordConfig> for PasswordGeneratorRequest; `as u8` keeps the
\* low 8 bits of the u32 length
password_request_from(config) ==
    [lowercase |-> config.include_lowercase,
     uppercase |-> config.include_uppercase,
     numbers |-> config.include_numbers,
     special |-> config.include_symbols,
     length |-> config.length % (U8_MAX + 1),
     avoid_ambiguous |-> config.exclude_similar,
     min_lowercase |-> None,
     min_uppercase |-> None,
     min_number |-> None,
     min_special |-> None]

\* the generate_password_legacy command up to its call of gen_password, on
\* any PasswordConfig with a length from both sides of the u8 range, up to
\* 2^31 - 1; the result kept is the request handed to gen_password
GeneratePasswordLegacy ==
    /\ cmdPhase = "idle"
    /\ \E length \in {0, 1, 16, 255, 256, 300, 65536 + 12, 2147483647},
          classes \in [{"uppercase", "lowercase", "numbers", "symbols"} -> BOOLEAN],
          exclude_similar \in BOOLEAN, exclude_ambiguous \in BOOLEAN :
          LET config == [length |-> length,
                         include_uppercase |-> classes["uppercase"],
                         include_lowercase |-> classes["lowercase"],
                         include_numbers |-> classes["numbers"],
                         include_symbols |-> classes["symbols"],
                         exclude_similar |-> exclude_similar,
                         exclude_ambiguous |-> exclude_ambiguous,
                         custom_exclusions |-> <<"l", "1">>]
          IN  /\ cmdCall' = [function |-> "generate_password_legacy", config |-> config]
              /\ cmdResult' = <<password_request_from(config)>>
    /\ cmdPhase' = "done"

\* most interfaces of a modelled host
MaxInterfaces == 3

\* get_active_network_interface_ip on what get_if_addrs returned: the loop
\* ends at the first interface that sets best_ip, and the first private IPv4
\* address is the fallback.  An IPv4 address is its four octets, an IPv6
\* address its eight segments; the string returned is kept as the address it
\* denotes
get_active_network_interface_ip(if_addrs) ==
    LET is_private(o) ==
            o[1] = 10 \/ (o[1] = 172 /\ o[2] \in 16..31) \/ (o[1] = 192 /\ o[2] = 168)
        is_link_local(o) == o[1] = 169 /\ o[2] = 254
        is_unspecified(a) == \A k \in DOMAIN a : a[k] = 0
        is_broadcast(o) == \A k \in DOMAIN o : o[k] = 255
        is_loopback_v6(g) == g = <<0, 0, 0, 0, 0, 0, 0, 1>>
        usable_v4(interface) ==
            /\ ~interface.is_loopback
            /\ interface.ip.family = "V4"
            /\ ~(is_link_local(interface.ip.addr) \/ is_unspecified(interface.ip.addr)
                  \/ is_broadcast(interface.ip.addr))
        \* the interface sets best_ip; segments[0] & 0xe000 == 0x2000 on a
        \* 16-bit segment
        sets_best(interface) ==
            \/ usable_v4(interface) /\ ~is_private(interface.ip.addr)
            \/ /\ ~interface.is_loopback
               /\ interface.ip.family = "V6"
               /\ ~is_loopback_v6(interface.ip.addr)
               /\ ~is_unspecified(interface.ip.addr)
               /\ interface.ip.addr[1] \div 8192 = 1
        sets_fallback(interface) ==
            usable_v4(interface) /\ is_private(interface.ip.addr)
        First(Test(_)) ==
            LET at == {i \in 1..Len(if_addrs.value) : Test(if_addrs.value[i])}
            IN  IF at = {} THEN None
                ELSE Some(if_addrs.value[CHOOSE i \in at : \A j \in at : i <= j].ip)
        best_ip == First(sets_best)
        fallback_ip == First(sets_fallback)
    IN  IF if_addrs.kind = "Ok" /\ best_ip.some THEN Ok(best_ip.value)
        ELSE IF if_addrs.kind = "Ok" /\ fallback_ip.some THEN Ok(fallback_ip.value)
        ELSE Err("Could not determine active network interface IP")

\* a call of get_active_network_interface_ip on a host whose interfaces
\* (loopback, public, private and link-local IPv4, global and link-local
\* IPv6) come in any order, or whose interfaces cannot be listed
ActiveInterfaceIp ==
    /\ cmdPhase = "idle"
    /\ LET V4(a, b, c, d) == [family |-> "V4", addr |-> <<a, b, c, d>>]
           V6(first) == [family |-> "V6", addr |-> <<first, 0, 0, 0, 0, 0, 0, 1>>]
           Interface(loopback, ip) == [is_loopback |-> loopback, ip |-> ip]
           interfaces ==
               {Interface(TRUE, V4(127, 0, 0, 1)), Interface(TRUE, V6(0)),
                Interface(FALSE, V4(8, 8, 4, 4)), Interface(FALSE, V4(203, 0, 113, 7)),
                Interface(FALSE, V4(192, 168, 1, 5)), Interface(FALSE, V4(10, 0, 0, 2)),
                Interface(FALSE, V4(169, 254, 1, 1)),
                Interface(FALSE, V6(8193)), Interface(FALSE, V6(65152))}
       IN  \E if_addrs \in {Err("io")} \cup
                            {Ok(list) : list \in UNION {[1..n -> interfaces] :
                                                          n \in 0..MaxInterfaces}} :
              /\ cmdCall' = [function |-> "get_active_network_interface_ip",
                             if_addrs |-> if_addrs]
              /\ cmdResult' = <<get_active_network_interface_ip(if_addrs)>>
    /\ cmdPhase' = "done"

\* get_linux_network_ip on what the two commands give (Err when a command
\* cannot be run, else its standard output): the commands it ran, in order,
\* and what it returned
get_linux_network_ip(ip_route, hostname_I) ==
    LET split_whitespace(s) ==
            SelectSeq(split([i \in 1..Len(s) |-> IF s[i] \in WhiteSpace THEN " " ELSE s[i]],
                            " "),
                      LAMBDA part : part # <<>>)
        \* str::parse::<Ipv4Addr>: four decimal octets between dots
        octet(part) == {n \in 0..U8_MAX : to_decimal(n) = part}
        parse(part) ==
            LET octets == split(part, ".")
            IN  IF Len(octets) = 4 /\ \A k \in 1..4 : octet(octets[k]) # {}
                THEN Ok([k \in 1..4 |-> CHOOSE n \in octet(octets[k]) : TRUE])
                ELSE Err("AddrParseError")
        \* the part parses, and is neither loopback nor link-local
        usable(part) ==
            LET parsed_ip == parse(part)
            IN  /\ parsed_ip.kind = "Ok"
                /\ parsed_ip.value[1] # 127
                /\ ~(parsed_ip.value[1] = 169 /\ parsed_ip.value[2] = 254)
        route_parts == IF ip_route.kind = "Ok" THEN split_whitespace(ip_route.value)
                       ELSE <<>>
        found == {i \in 1..Len(route_parts) : usable(route_parts[i])}
        names == IF hostname_I.kind = "Ok" THEN split_whitespace(hostname_I.value)
                 ELSE <<>>
        ip == IF names = <<>> THEN <<>> ELSE names[1]
    IN  IF found # {}
        THEN [commands |-> <<"ip route get 8.8.8.8">>,
              result |-> Ok(route_parts[CHOOSE i \in found : \A j \in found : i <= j])]
        ELSE [commands |-> <<"ip route get 8.8.8.8", "hostname -I">>,
              result |-> IF usable(ip) THEN Ok(ip)
                         ELSE Err("Could not get Linux network IP")]

\* a call of get_linux_network_ip: `ip route get 8.8.8.8` cannot be run,
\* prints nothing, or prints the route (the destination, the gateway on a
\* routed network, the device, the source address when one is chosen);
\* `hostname -I` cannot be run or prints the addresses of the host
LinuxNetworkIp ==
    /\ cmdPhase = "idle"
    /\ \E via \in {None, Some(<<"1","9","2",".","1","6","8",".","1",".","1">>)},
          src \in {None, Some(<<"1","9","2",".","1","6","8",".","1",".","1","0","0">>), Some(<<"1","0",".","0",".","0",".","5">>), Some(<<"1","2","7",".","0",".","0",".","1">>)},
          route \in {"error", "empty", "route"},
          hostname_I \in {Err("io"), Ok(<<>>), Ok(<<"1","9","2",".","1","6","8",".","1",".","1","0","0"," ","1","7","2",".","1","7",".","0",".","1"," ","LF">>),
                          Ok(<<"1","2","7",".","0",".","0",".","1"," ","LF">>)} :
          LET text == join(<<<<"8",".","8",".","8",".","8">>>>
                           \o (IF via.some THEN <<<<"v","i","a">>, via.value>> ELSE <<>>)
                           \o <<<<"d","e","v">>, <<"e","t","h","0">>>>
                           \o (IF src.some THEN <<<<"s","r","c">>, src.value>> ELSE <<>>)
                           \o <<<<"u","i","d">>, <<"1","0","0","0">>, <<"LF">>, <<"c","a","c","h","e">>>>, <<" ">>)
              ip_route == CASE route = "error" -> Err("io")
                            [] route = "empty" -> Ok(<<>>)
                            [] route = "route" -> Ok(text)
          IN  /\ route # "route" => ~via.some /\ ~src.some
              /\ cmdCall' = [function |-> "get_linux_network_ip",
                             ip_route |-> ip_route, hostname_I |-> hostname_I,
                             via |-> via, src |-> src]
              /\ cmdResult' = <<get_linux_network_ip(ip_route, hostname_I)>>
    /\ cmdPhase' = "done"

NextCommands ==
    \/ CalculatePasswordStrength /\ UNCHANGED <<ppVars, detVars, unVars, evVars, ipVars, trayVars, saveVars>>
    \/ MaskIpAddress /\ UNCHANGED <<ppVars, detVars, unVars, evVars, ipVars, trayVars, saveVars>>
    \/ FormatMachineId /\ UNCHANGED <<ppVars, detVars, unVars, evVars, ipVars, trayVars, saveVars>>
    \/ FormatMachineIdAgain /\ UNCHANGED <<ppVars, detVars, unVars, evVars, ipVars, trayVars, saveVars>>
    \/ GeneratePasswordLegacy /\ UNCHANGED <<ppVars, detVars, unVars, evVars, ipVars, trayVars, saveVars>>
    \/ ActiveInterfaceIp /\ UNCHANGED <<ppVars, detVars, unVars, evVars, ipVars, trayVars, saveVars>>
    \/ LinuxNetworkIp /\ UNCHANGED <<ppVars, detVars, unVars, evVars, ipVars, trayVars, saveVars>>

SpecCommands == InitMain /\ [][NextCommands]_vars

----------------------------------------------------------------------------
(* get_public_ip_address of main.rs.  The three strategies read the        *)
(* network state of the machine; each either fails or gives an address.    *)

\* the three strategies in the order of the source
Strategies ==
    <<"get_routable_ip", "get_active_network_interface_ip", "get_network_interface_ip">>

\* std::env::consts::OS of the build; the last one has no platform command
OSNames == {<<"l","i","n","u","x">>, <<"m","a","c","o","s">>, <<"w","i","n","d","o","w","s">>, <<"f","r","e","e","b","s","d">>}

\* what strategy k can return on a build for the given OS: an error or an
\* address, IPv4 for the probe and the platform command, IPv4 or IPv6 for
\* the interface enumeration
StrategyOutcomes(k, os) ==
    LET octets == {<<"8">>, <<"1","0">>, <<"1","9","2">>}
        ipv4 == {a \o <<".">> \o b \o <<".">> \o c \o <<".">> \o d :
                    a \in octets, b \in octets, c \in octets, d \in octets}
        ipv6 == {<<"2","0","0","1",":","d","b","8",":",":","1">>, <<"2","a","0","0",":","1","4","5","0",":","4","0","0","1",":","8","1","b",":",":","2","0","0","e">>}
    IN  {Err("unavailable")} \cup
        CASE k = 1 -> {Ok(ip) : ip \in ipv4}
          [] k = 2 -> {Ok(ip) : ip \in ipv4 \cup ipv6}
          [] k = 3 -> IF os = <<"f","r","e","e","b","s","d">> THEN {} ELSE {Ok(ip) : ip \in ipv4}

\* a command that gives up on the platform command
public_ip_response_without_command(k, outcome, os) ==
    IF outcome.kind = "Ok"
    THEN Some([ip |-> outcome.value, masked_ip |-> mask_ip_address(outcome.value),
               country |-> None, region |-> None])
    ELSE IF k >= 2
    THEN Some([ip |-> <<"S","Y","S","-">> \o [i \in 1..Len(os) |-> to_uppercase(os[i])[1]],
               masked_ip |-> <<"S","y","s","t","e","m"," ","I","P">>, country |-> None, region |-> None])
    ELSE None

\* get_public_ip_address after strategy k returned the outcome: the response
\* it returns, or none when it goes on to the next strategy
public_ip_response(k, outcome, os) ==
    IF outcome.kind = "Ok"
    THEN Some([ip |-> outcome.value, masked_ip |-> mask_ip_address(outcome.value),
               country |-> None, region |-> None])
    ELSE IF k = Len(Strategies)
    THEN Some([ip |-> <<"S","Y","S","-">> \o [i \in 1..Len(os) |-> to_uppercase(os[i])[1]],
               masked_ip |-> <<"S","y","s","t","e","m"," ","I","P">>, country |-> None, region |-> None])
    ELSE None

\* the step of get_public_ip_address that calls strategy k
TryStrategy(k) ==
    /\ Len(ipAttempts) = k - 1
    /\ ~ipResult.some
    /\ \E os \in OSNames : \E outcome \in StrategyOutcomes(k, os) :
          /\ ipAttempts' = Append(ipAttempts, [strategy |-> Strategies[k],
                                               outcome |-> outcome])
          /\ ipResult' = public_ip_response(k, outcome, os)

NextPublicIp ==
    \/ TryStrategy(1) /\ UNCHANGED <<ppVars, detVars, unVars, evVars, cmdVars, trayVars, saveVars>>
    \/ TryStrategy(2) /\ UNCHANGED <<ppVars, detVars, unVars, evVars, cmdVars, trayVars, saveVars>>
    \/ TryStrategy(3) /\ UNCHANGED <<ppVars, detVars, unVars, evVars, cmdVars, trayVars, saveVars>>

SpecPublicIp == InitMain /\ [][NextPublicIp]_vars

----------------------------------------------------------------------------
(* The system tray and the close request of the main window (main.rs).     *)
(* The application is its main window, whether the process runs, and the   *)
(* events emitted to the frontend.                                         *)

\* most tray and window events of a modelled run
MaxTrayEvents == 3

\* the ids of the menu items of create_system_tray, and one that is none of them
MenuItemIds ==
    {"show", "hide", "generate_password", "generate_passphrase",
     "generate_username", "quit", "unknown"}

TrayEvents ==
    {[source |-> "tray", event |-> e] : e \in {"LeftClick", "RightClick", "DoubleClick"}}
    \cup {[source |-> "tray", event |-> "MenuItemClick", id |-> id] : id \in MenuItemIds}

\* one event name for every generator item
tray_signal_of_password(id) == "tray-generate-password"

\* the name of the event that the arm of a generator item emits to the frontend
tray_signal(id) ==
    CASE id = "generate_password" -> "tray-generate-password"
      [] id = "generate_passphrase" -> "tray-generate-passphrase"
      [] id = "generate_username" -> "tray-generate-username"

\* a handler whose left click toggles the visibility of the window and that
\* handles nothing else
handle_system_tray_event_toggle(app, event) ==
    IF event.event = "LeftClick"
    THEN [app EXCEPT !.window.visible = ~@, !.window.focused = ~app.window.visible]
    ELSE app

\* handle_system_tray_event: the application after the event
handle_system_tray_event(app, event) ==
    LET show == [app EXCEPT !.window.visible = TRUE]
        set_focus(a) == [a EXCEPT !.window.focused = TRUE]
        emit(a, name) == [a EXCEPT !.emitted = Append(@, name)]
    IN  IF ~app.window.exists /\ ~(event.event = "MenuItemClick" /\ event.id = "quit")
        THEN app
        ELSE CASE event.event = "LeftClick" ->
                    IF app.window.visible THEN set_focus(app) ELSE set_focus(show)
               [] event.event = "RightClick" -> app
               [] event.event = "DoubleClick" -> set_focus(show)
               [] event.event = "MenuItemClick" ->
                    CASE event.id = "show" ->
                            [set_focus(show) EXCEPT !.window.minimized = FALSE]
                      [] event.id = "hide" ->
                            [app EXCEPT !.window.visible = FALSE, !.window.focused = FALSE]
                      [] event.id = "generate_password" ->
                            emit(set_focus(show), tray_signal(event.id))
                      [] event.id = "generate_passphrase" ->
                            emit(set_focus(show), tray_signal(event.id))
                      [] event.id = "generate_username" ->
                            emit(set_focus(show), tray_signal(event.id))
                      [] event.id = "quit" -> [app EXCEPT !.running = FALSE]
                      [] OTHER -> app

\* a handler that leaves the close request to the runtime
on_window_event_default(app, event) == [app |-> app, prevent_close |-> FALSE]

\* the closure given to window.on_window_event: the application after the
\* event, and whether api.prevent_close() was called
on_window_event(app, event) ==
    IF event = "CloseRequested"
    THEN [app |-> IF app.window.exists
                  THEN [app EXCEPT !.window.visible = FALSE, !.window.focused = FALSE]
                  ELSE app,
          prevent_close |-> TRUE]
    ELSE [app |-> app, prevent_close |-> FALSE]

\* a click on the tray icon or on an item of its menu
TrayEvent ==
    /\ trayApp.running
    /\ Len(trayLog) < MaxTrayEvents
    /\ \E event \in TrayEvents :
          /\ trayApp' = handle_system_tray_event(trayApp, event)
          /\ trayLog' = Append(trayLog, event)

\* an event of the main window: the handler runs, then a close request that
\* was not prevented closes the window, and the process ends with its last
\* window.  Minimize is the user minimizing the window: the handler sees the
\* events of it under its `_` arm, and the window is minimized and unfocused
WindowEvent ==
    /\ trayApp.running
    /\ trayApp.window.exists
    /\ Len(trayLog) < MaxTrayEvents
    /\ \E event \in {"CloseRequested", "Moved", "Minimize"} :
          LET handled == on_window_event(trayApp, event)
          IN  /\ trayApp' = IF event = "CloseRequested" /\ ~handled.prevent_close
                            THEN [handled.app EXCEPT !.window.exists = FALSE,
                                                     !.window.visible = FALSE,
                                                     !.window.focused = FALSE,
                                                     !.running = FALSE]
                            ELSE IF event = "Minimize"
                            THEN [handled.app EXCEPT !.window.minimized = TRUE,
                                                     !.window.focused = FALSE]
                            ELSE handled.app
              /\ trayLog' = Append(trayLog, [source |-> "window", event |-> event,
                                             prevent_close |-> handled.prevent_close])

NextTray ==
    \/ TrayEvent /\ UNCHANGED <<ppVars, detVars, unVars, evVars, cmdVars, ipVars, saveVars>>
    \/ WindowEvent /\ UNCHANGED <<ppVars, detVars, unVars, evVars, cmdVars, ipVars, saveVars>>

SpecTray == InitMain /\ [][NextTray]_vars

----------------------------------------------------------------------------
(* save_password_to_file of main.rs.  The host dispatches every invoked    *)
(* command on a worker of its pool, so two calls run concurrently.  The    *)
(* host is its clock, the secgen directory and the files in it; fs::write  *)
(* is File::create (create or truncate) followed by write_all.             *)

\* most minutes that pass during a modelled run
MaxMinute == 1

\* the call up to the file path: document_dir, create_dir_all, Utc::now;
\* the clock reads a time not before its last reading
SaveResolve(p) ==
    /\ saveCalls[p].pc = "idle"
    /\ LET \* now.format("%Y-%m-%d-%H-%M") within the modelled hour, in the
           \* file name "{}-pw.txt"
           timestamp_filename(now) ==
               <<"2","0","2","4","-","0","1","-","0","1","-","0","0","-">>
                  \o pad_left_zero(to_decimal(now.minute), 2) \o <<"-","p","w",".","t","x","t">>
       IN   \E password \in {<<"a">>, <<"b","b">>, <<"c","c">>},
             document_dir \in {None, Some(<<"/","d","o","c">>)},
             now \in {[minute |-> m, second |-> s] : m \in 0..MaxMinute, s \in {0, 59}} :
             IF ~document_dir.some
             THEN /\ now = saveHost.now
                  /\ saveCalls' = [saveCalls EXCEPT ![p] =
                         [pc |-> "done", password |-> password, now |-> now,
                          file_path |-> <<>>,
                          result |-> Err("Could not find documents directory")]]
                  /\ UNCHANGED saveHost
             ELSE /\ \/ now.minute > saveHost.now.minute
                     \/ now.minute = saveHost.now.minute /\ now.second >= saveHost.now.second
                  /\ saveHost' = [saveHost EXCEPT !.now = now, !.secgen_dir = TRUE]
                  /\ saveCalls' = [saveCalls EXCEPT ![p] =
                         [pc |-> "create", password |-> password, now |-> now,
                          file_path |-> document_dir.value \o <<"/","s","e","c","g","e","n","/">>
                                           \o timestamp_filename(now),
                          result |-> [kind |-> "Pending"]]]

\* fs::write, first half: File::create leaves an empty file at the path, or
\* fails and the call returns the error
SaveCreate(p) ==
    /\ saveCalls[p].pc = "create"
    /\ \E created \in BOOLEAN :
          IF created
          THEN /\ saveHost' = [saveHost EXCEPT !.files =
                                  (saveCalls[p].file_path :> <<>>) @@ @]
               /\ saveCalls' = [saveCalls EXCEPT ![p].pc = "write"]
          ELSE /\ saveCalls' = [saveCalls EXCEPT
                      ![p].pc = "done",
                      ![p].result = Err("Failed to write password to file")]
               /\ UNCHANGED saveHost

\* fs::write, second half: write_all puts the bytes of the password at the
\* start of the file through the handle of this call; then the call returns
\* the path
SaveWriteAll(p) ==
    /\ saveCalls[p].pc = "write"
    /\ LET call == saveCalls[p]
           old == saveHost.files[call.file_path]
       IN  /\ saveHost' = [saveHost EXCEPT
                  !.files = (call.file_path :>
                                call.password \o SubSeq(old, Len(call.password) + 1, Len(old)))
                            @@ @,
                  !.written = Append(@, p)]
           /\ saveCalls' = [saveCalls EXCEPT ![p].pc = "done",
                                             ![p].result = Ok(call.file_path)]

NextSave ==
    \/ \E p \in DOMAIN saveCalls : SaveResolve(p) /\ UNCHANGED <<ppVars, detVars, unVars, evVars, cmdVars, ipVars, trayVars>>
    \/ \E p \in DOMAIN saveCalls : SaveCreate(p) /\ UNCHANGED <<ppVars, detVars, unVars, evVars, cmdVars, ipVars, trayVars>>
    \/ \E p \in DOMAIN saveCalls : SaveWriteAll(p) /\ UNCHANGED <<ppVars, detVars, unVars, evVars, cmdVars, ipVars, trayVars>>

SpecSave == InitMain /\ [][NextSave]_vars

----------------------------------------------------------------------------
(* Properties of the username evaluation, under SpecEvaluator *)

EVDone == evPhase = "done"
EVReturned == evPhase = "done" /\ ~evResult.panic

C12_CommonWordPenalty_AsStated ==
    LET username_lower == to_lowercase(evUsername)
        terms == {i \in 1..Len(common_words) :
                     str_contains(username_lower, common_words[i])}
    IN  (/\ EVDone
         /\ is_likely_generated_username(username_lower) = Returned(FALSE)
         /\ terms # {}) =>
            /\ ~evResult.panic
            /\ evSteps.common.privacy + 30 = evSteps.dictionary.privacy
               \/ (evSteps.common.privacy = 0 /\ evSteps.dictionary.privacy <= 30)
            /\ evSteps.common.uniqueness + 25 = evSteps.dictionary.uniqueness
               \/ (evSteps.common.uniqueness = 0 /\ evSteps.dictionary.uniqueness <= 25)
            /\ \E i \in 1..Len(evResult.value.feedback), t \in terms :
                  /\ \A other \in terms : t <= other
                  /\ evResult.value.feedback[i] =
                        [text |-> "Contains common word '{}' - reduces privacy",
                         word |-> common_words[t]]
            /\ evResult.value.score < 40

\* C13: for every username the reported score is the integer part of
\* privacy*0.6 + uniqueness*0.4, clamped to at most 100 and then to at most
\* 25 when the length is at most 4, so that it lies in 0..100, and the
\* reported security_level is the band that contains the score
C13_ScoreAndBand_AsStated ==
    EVDone =>
        /\ ~evResult.panic
        /\ LET r == evResult.value
               tenfold == 6 * r.privacy_score + 4 * r.uniqueness_score
               whole == CHOOSE n \in 0..U8_MAX : 10 * n <= tenfold /\ tenfold < 10 * (n + 1)
               clamped == IF whole > 100 THEN 100 ELSE whole
           IN  /\ r.score = IF str_len(evUsername) <= 4 /\ clamped > 25 THEN 25 ELSE clamped
               /\ r.score \in 0..100
               /\ \/ r.score \in 0..25 /\ r.security_level = "Very Poor - High Risk"
                  \/ r.score \in 26..45 /\ r.security_level = "Poor - Easily Guessable"
                  \/ r.score \in 46..65 /\ r.security_level = "Fair - Some Privacy Concerns"
                  \/ r.score \in 66..80 /\ r.security_level = "Good - Reasonably Secure"
                  \/ r.score \in 81..100 /\ r.security_level = "Excellent - Highly Secure"

\* the list words that contain no common-word term and no personal-information
\* pattern, of a length between two limits
CleanListWords(low, high) ==
    {w \in RangeOf(EFF_LONG_WORD_LIST) :
        /\ str_len(w) >= low /\ str_len(w) <= high
        /\ \A i \in 1..Len(common_words) : ~str_contains(w, common_words[i])
        /\ ~contains_personal_info_patterns(w)}

----------------------------------------------------------------------------
(* Properties of calculate_password_strength, mask_ip_address and          *)
(* format_machine_id, under SpecCommands                                   *)

\* function f has been called
Called(f) == cmdPhase # "idle" /\ cmdCall.function = f

\* C15: calculate_password_strength returns score = 25 * s for the estimator
\* score s in 0..4, one of 0, 25, 50, 75, 100; crack_times_display is the
\* fixed text of s; feedback is the estimator's warning, when present,
\* followed by its suggestions in their order
C15_PasswordStrength ==
    (Called("calculate_password_strength") /\ cmdCall.estimate.kind = "Ok") =>
        LET estimate == cmdCall.estimate
            strength == cmdResult[1].value
            warned == estimate.feedback.some /\ estimate.feedback.value.warning.some
            suggestions == IF estimate.feedback.some
                           THEN estimate.feedback.value.suggestions ELSE <<>>
            offset == IF warned THEN 1 ELSE 0
        IN  /\ cmdResult[1].kind = "Ok"
            /\ estimate.score \in 0..4
            /\ strength.score = 25 * estimate.score
            /\ strength.score \in {0, 25, 50, 75, 100}
            /\ strength.crack_times_display =
                  <<"Very weak - could be cracked instantly",
                    "Weak - could be cracked in minutes",
                    "Fair - could be cracked in hours to days",
                    "Good - could take months to crack",
                    "Strong - would take years to crack">>[estimate.score + 1]
            /\ Len(strength.feedback) = offset + Len(suggestions)
            /\ warned => strength.feedback[1] =
                            to_string(estimate.feedback.value.warning.value)
            /\ \A i \in 1..Len(suggestions) :
                  strength.feedback[offset + i] = to_string(suggestions[i])

\* the strongest score, with a warning and two suggestions
C15_Witness ==
    /\ Called("calculate_password_strength")
    /\ cmdResult[1].kind = "Ok"
    /\ cmdResult[1].value.score = 100
    /\ Len(cmdResult[1].value.feedback) = 3
    /\ cmdResult[1].value.feedback[1] = "This is a top-10 common password."

\* C16: mask_ip_address maps an input of exactly four dot-separated parts
\* A.B.C.D to A.B.xxx.xxx, so that inputs with the same A and B get the same
\* masked form; any other input with a ':' to its first colon segment followed
\* by ::xxxx:xxxx:xxxx:xxxx, or to xxxx::xxxx:xxxx:xxxx:xxxx when that segment
\* is empty; and every remaining input, the empty one included, to
\* "Not available"
C16_MaskIpAddress ==
    Called("mask_ip_address") =>
        LET ip == cmdCall.ip
            masked == cmdResult[1]
            Dots(s) == {i \in 1..Len(s) : s[i] = "."}
            colons == {i \in 1..Len(ip) : ip[i] = ":"}
            \* the text up to the second dot of a string with at least two dots
            Lead(s) == LET d == CHOOSE d \in Dots(s) :
                                   Cardinality({e \in Dots(s) : e < d}) = 1
                       IN  SubSeq(s, 1, d - 1)
        IN  /\ Cardinality(Dots(ip)) = 3 =>
                  /\ masked = Lead(ip) \o <<".","x","x","x",".","x","x","x">>
                  /\ \A other \in MaskInputs :
                        (Cardinality(Dots(other)) = 3 /\ Lead(other) = Lead(ip)) =>
                            mask_ip_address(other) = masked
            /\ (Cardinality(Dots(ip)) # 3 /\ colons # {}) =>
                  LET first == CHOOSE c \in colons : \A d \in colons : c <= d
                  IN  masked = IF first = 1 THEN <<"x","x","x","x",":",":","x","x","x","x",":","x","x","x","x",":","x","x","x","x",":","x","x","x","x">>
                               ELSE SubSeq(ip, 1, first - 1) \o <<":",":","x","x","x","x",":","x","x","x","x",":","x","x","x","x",":","x","x","x","x">>
            /\ (Cardinality(Dots(ip)) # 3 /\ colons = {}) => masked = <<"N","o","t"," ","a","v","a","i","l","a","b","l","e">>

\* an IPv4 address has been masked
C16_Witness ==
    /\ Called("mask_ip_address")
    /\ cmdCall.ip = <<"1","9","2",".","1","6","8",".","1",".","1","0","0">>
    /\ cmdResult[1] = <<"1","9","2",".","1","6","8",".","x","x","x",".","x","x","x">>

\* the results of the calls of format_machine_id agree, and each is HWID-
\* followed by four groups of four upper-case hexadecimal digits, joined by
\* dashes, that spell the first 8 bytes of the hash of the machine id
HwidOfHash ==
    LET digits == <<"0","1","2","3","4","5","6","7","8","9","A","B","C","D","E","F">>
        Value(c) == (CHOOSE v \in 1..16 : digits[v] = c) - 1
        \* where the i-th hexadecimal digit stands
        Place(i) == 5 + 5 * ((i - 1) \div 4) + ((i - 1) % 4) + 1
        hash == Sha256(as_bytes(cmdCall.machine_id))
    IN  \A n \in 1..Len(cmdResult) :
            LET id == cmdResult[n]
            IN  /\ id = cmdResult[1]
                /\ Len(id) >= 24
                /\ SubSeq(id, 1, 5) = <<"H","W","I","D","-">>
                /\ id[10] = "-" /\ id[15] = "-" /\ id[20] = "-"
                /\ \A i \in 1..16 : id[Place(i)] \in RangeOf(digits)
                /\ \A k \in 1..8 :
                      16 * Value(id[Place(2 * k - 1)]) + Value(id[Place(2 * k)]) = hash[k]

----------------------------------------------------------------------------
(* Property of the SimpleLogin adapter, under SpecUsername *)

----------------------------------------------------------------------------
(* Property of get_public_ip_address, under SpecPublicIp *)

\* C19: get_public_ip_address never fails; it tries the routable-IP probe,
\* the interface enumeration and the platform command in that order, a later
\* one only after all earlier ones failed and none of them twice; the first
\* success is returned with its masked form, and the SYS-{OS} identifier with
\* the masked form "System IP" only when all three failed
C19_PublicIpFallbackOrder ==
    LET Failed(i) == ipAttempts[i].outcome.kind = "Err"
        last == ipAttempts[Len(ipAttempts)]
    IN  /\ Len(ipAttempts) <= 3
        /\ \A i \in 1..Len(ipAttempts) :
              /\ ipAttempts[i].strategy =
                    CASE i = 1 -> "get_routable_ip"
                      [] i = 2 -> "get_active_network_interface_ip"
                      [] i = 3 -> "get_network_interface_ip"
              /\ i < Len(ipAttempts) => Failed(i)
        /\ ~ipResult.some =>
              Len(ipAttempts) < 3 /\ \A i \in 1..Len(ipAttempts) : Failed(i)
        /\ ipResult.some =>
              /\ Len(ipAttempts) >= 1
              /\ ~Failed(Len(ipAttempts)) =>
                    /\ ipResult.value.ip = last.outcome.value
                    /\ ipResult.value.masked_ip = mask_ip_address(last.outcome.value)
                    /\ ipResult.value.masked_ip # <<"S","y","s","t","e","m"," ","I","P">>
              /\ Failed(Len(ipAttempts)) =>
                    /\ Len(ipAttempts) = 3
                    /\ ipResult.value.masked_ip = <<"S","y","s","t","e","m"," ","I","P">>
                    /\ ipResult.value.ip \in
                          {<<"S","Y","S","-","L","I","N","U","X">>, <<"S","Y","S","-","M","A","C","O","S">>, <<"S","Y","S","-","W","I","N","D","O","W","S">>, <<"S","Y","S","-","F","R","E","E","B","S","D">>}

\* the probe and the enumeration failed and the platform command gave the
\* address that is returned
C19_Witness ==
    /\ Len(ipAttempts) = 3
    /\ ipAttempts[1].outcome.kind = "Err"
    /\ ipAttempts[2].outcome.kind = "Err"
    /\ ipAttempts[3].outcome = Ok(<<"1","9","2",".","8",".","1","0",".","8">>)
    /\ ipResult.some
    /\ ipResult.value.masked_ip = <<"1","9","2",".","8",".","x","x","x",".","x","x","x">>

----------------------------------------------------------------------------
(* Property of the tray and of the close request, under SpecTray *)

\* C20: after any sequence of tray and window events the process has ended
\* only if the Quit item was clicked; a close request never closes the
\* window nor ends the process: the default close is prevented and the main
\* window is left hidden, and a later show or click event makes it visible
\* again
C20_OnlyQuitTerminates ==
    LET n == Len(trayLog)
        IsQuit(e) == e.source = "tray" /\ e.event = "MenuItemClick" /\ e.id = "quit"
        IsClose(e) == e.source = "window" /\ e.event = "CloseRequested"
        Shows(e) ==
            /\ e.source = "tray"
            /\ \/ e.event \in {"LeftClick", "DoubleClick"}
               \/ /\ e.event = "MenuItemClick"
                  /\ e.id \in {"show", "generate_password", "generate_passphrase",
                               "generate_username"}
    IN  /\ trayApp.window.exists
        /\ ~trayApp.running => \E i \in 1..n : IsQuit(trayLog[i])
        /\ \A i \in 1..n : IsClose(trayLog[i]) => trayLog[i].prevent_close
        /\ (n >= 1 /\ IsClose(trayLog[n])) =>
              trayApp.running /\ ~trayApp.window.visible
        /\ (n >= 1 /\ Shows(trayLog[n])) => trayApp.window.visible

\* the window was hidden by a close request and a later click on the tray
\* icon made it visible again, the process still running
C20_Witness ==
    /\ Len(trayLog) >= 2
    /\ trayLog[1].source = "window"
    /\ trayLog[1].event = "CloseRequested"
    /\ trayLog[2].source = "tray"
    /\ trayLog[2].event = "LeftClick"
    /\ trayApp.window.visible
    /\ trayApp.running

----------------------------------------------------------------------------
(* Properties of the routing of tray events, under SpecTray *)

\* C21: every step that handles a click on a menu item is routed by the id:
\* show leaves the window visible, focused and not minimized; hide leaves it
\* hidden; each generator item leaves it visible and focused and appends
\* the one event of that generator to the emitted events; quit ends the
\* process; an unknown id changes nothing
C21_MenuRouting ==
    [][\A id \in MenuItemIds :
          trayLog' = Append(trayLog, [source |-> "tray", event |-> "MenuItemClick",
                                      id |-> id]) =>
             CASE id = "show" ->
                    trayApp' = [trayApp EXCEPT !.window.visible = TRUE,
                                               !.window.focused = TRUE,
                                               !.window.minimized = FALSE]
               [] id = "hide" ->
                    /\ ~trayApp'.window.visible
                    /\ trayApp'.running
                    /\ trayApp'.emitted = trayApp.emitted
               [] id \in {"generate_password", "generate_passphrase", "generate_username"} ->
                    /\ trayApp'.window.visible
                    /\ trayApp'.window.focused
                    /\ trayApp'.running
                    /\ trayApp'.emitted =
                          Append(trayApp.emitted,
                                 CASE id = "generate_password" -> "tray-generate-password"
                                   [] id = "generate_passphrase" -> "tray-generate-passphrase"
                                   [] id = "generate_username" -> "tray-generate-username")
               [] id = "quit" ->
                    /\ ~trayApp'.running
                    /\ trayApp'.window = trayApp.window
                    /\ trayApp'.emitted = trayApp.emitted
               [] OTHER -> trayApp' = trayApp]_vars

\* the window was minimized, then hidden by the hide item, and the username
\* item made it visible and focused again and emitted its event
C21_Witness ==
    /\ Len(trayLog) = 3
    /\ trayLog[1] = [source |-> "window", event |-> "Minimize", prevent_close |-> FALSE]
    /\ trayLog[2] = [source |-> "tray", event |-> "MenuItemClick", id |-> "hide"]
    /\ trayLog[3] = [source |-> "tray", event |-> "MenuItemClick", id |-> "generate_username"]
    /\ trayApp.window.visible
    /\ trayApp.window.focused
    /\ trayApp.emitted = <<"tray-generate-username">>

\* C28: every step that handles a click on the tray icon: a left click on a
\* hidden window shows and focuses it, a left click on a visible window only
\* focuses it, a double click shows and focuses it, a right click changes
\* nothing; none of them hides a visible window or ends the process
C28_IconClicks ==
    [][\A e \in {"LeftClick", "RightClick", "DoubleClick"} :
          trayLog' = Append(trayLog, [source |-> "tray", event |-> e]) =>
             /\ CASE e = "LeftClick" ->
                       IF trayApp.window.visible
                       THEN trayApp' = [trayApp EXCEPT !.window.focused = TRUE]
                       ELSE trayApp' = [trayApp EXCEPT !.window.visible = TRUE,
                                                       !.window.focused = TRUE]
                  [] e = "DoubleClick" ->
                       trayApp' = [trayApp EXCEPT !.window.visible = TRUE,
                                                  !.window.focused = TRUE]
                  [] e = "RightClick" -> trayApp' = trayApp
             /\ trayApp.window.visible => trayApp'.window.visible
             /\ trayApp'.running]_vars

\* a left click on the visible window, then a left click on the window
\* hidden by a close request
C28_Witness ==
    /\ Len(trayLog) = 3
    /\ trayLog[1] = [source |-> "tray", event |-> "LeftClick"]
    /\ trayLog[2] = [source |-> "window", event |-> "CloseRequested", prevent_close |-> TRUE]
    /\ trayLog[3] = [source |-> "tray", event |-> "LeftClick"]
    /\ trayApp.window.visible
    /\ trayApp.window.focused
    /\ trayApp.running

----------------------------------------------------------------------------
(* Property of save_password_to_file, under SpecSave *)

\* C22: every successful save returns the path of the file named after the
\* minute of its timestamp in the secgen directory; two saves of the same
\* minute return the same path, and once no save to that path is still
\* running, the file there holds exactly the password of the save that
\* finished its write last; a save whose documents directory is not
\* resolved fails and, when no other save got further, nothing was created
C22_SaveToMinuteFile_AsStated ==
    LET Saved(p) == saveCalls[p].pc = "done" /\ saveCalls[p].result.kind = "Ok"
        Running(p) == saveCalls[p].pc \in {"create", "write"}
        Unresolved(p) ==
            /\ saveCalls[p].pc = "done"
            /\ saveCalls[p].result = Err("Could not find documents directory")
        LastWriter(path) ==
            LET at == {i \in 1..Len(saveHost.written) :
                          saveCalls[saveHost.written[i]].file_path = path}
            IN  saveHost.written[CHOOSE i \in at : \A j \in at : j <= i]
    IN  /\ \A p \in DOMAIN saveCalls :
              Saved(p) =>
                 /\ saveCalls[p].result.value =
                       <<"/","d","o","c","/","s","e","c","g","e","n","/","2","0","2","4","-","0","1","-","0","1","-","0","0","-","0">> \o to_decimal(saveCalls[p].now.minute)
                          \o <<"-","p","w",".","t","x","t">>
                 /\ \A q \in DOMAIN saveCalls :
                       (Saved(q) /\ saveCalls[q].now.minute = saveCalls[p].now.minute)
                          => saveCalls[q].result = saveCalls[p].result
                 /\ (\A q \in DOMAIN saveCalls :
                        Running(q) => saveCalls[q].file_path # saveCalls[p].file_path)
                       => /\ saveCalls[p].file_path \in DOMAIN saveHost.files
                          /\ saveHost.files[saveCalls[p].file_path] =
                                saveCalls[LastWriter(saveCalls[p].file_path)].password
        /\ (/\ \E p \in DOMAIN saveCalls : Unresolved(p)
            /\ \A p \in DOMAIN saveCalls : Unresolved(p) \/ saveCalls[p].pc = "idle")
              => saveHost.files = <<>> /\ ~saveHost.secgen_dir

----------------------------------------------------------------------------
(* Properties of the legacy password command and of the network helpers,   *)
(* under SpecCommands                                                      *)

\* C23: the request made from a PasswordConfig has the length of the config,
\* for every value of the 32-bit length field, the four class flags of the
\* corresponding include_* flags, and no minimum count
C23_LegacyMappingLossless_AsStated ==
    Called("generate_password_legacy") =>
        LET config == cmdCall.config
            request == cmdResult[1]
        IN  /\ request.length = config.length
            /\ request.lowercase = config.include_lowercase
            /\ request.uppercase = config.include_uppercase
            /\ request.numbers = config.include_numbers
            /\ request.special = config.include_symbols
            /\ ~request.min_lowercase.some
            /\ ~request.min_uppercase.some
            /\ ~request.min_number.some
            /\ ~request.min_special.some

\* C24: when the interfaces were listed and some non-loopback interface has
\* an IPv4 address that is neither private nor link-local, the result is
\* such an address; the result is a global IPv6 address only when there is
\* no such IPv4 address; and it is a private IPv4 address only when there
\* is neither, and then the first one
C24_PublicIPv4Preferred_AsStated ==
    (Called("get_active_network_interface_ip") /\ cmdCall.if_addrs.kind = "Ok") =>
        LET list == cmdCall.if_addrs.value
            result == cmdResult[1]
            Private(ip) ==
                /\ ip.family = "V4"
                /\ \/ ip.addr[1] = 10
                   \/ ip.addr[1] = 172 /\ ip.addr[2] \in 16..31
                   \/ ip.addr[1] = 192 /\ ip.addr[2] = 168
            Public(ip) ==
                /\ ip.family = "V4"
                /\ ~Private(ip)
                /\ ~(ip.addr[1] = 169 /\ ip.addr[2] = 254)
            Global(ip) == ip.family = "V6" /\ ip.addr[1] \in 8192..16383
            Has(Test(_)) ==
                \E i \in 1..Len(list) : ~list[i].is_loopback /\ Test(list[i].ip)
        IN  /\ Has(Public) => result.kind = "Ok" /\ Public(result.value)
            /\ (result.kind = "Ok" /\ Global(result.value)) => ~Has(Public)
            /\ (result.kind = "Ok" /\ Private(result.value)) =>
                  /\ ~Has(Public)
                  /\ ~Has(Global)
                  /\ \E i \in 1..Len(list) :
                        /\ list[i].ip = result.value
                        /\ \A j \in 1..(i - 1) :
                              list[j].is_loopback \/ ~Private(list[j].ip)

\* C25: when the output of `ip route get 8.8.8.8` has a src token followed by
\* an address that is neither loopback nor link-local, that address is
\* returned and hostname -I is not run; the result is never the probed
\* destination 8.8.8.8 nor the gateway; and hostname -I is run only when the
\* output has no such src address
C25_LinuxSrcAddress_AsStated ==
    Called("get_linux_network_ip") =>
        LET out == cmdResult[1]
            usable_src == /\ cmdCall.ip_route.kind = "Ok"
                          /\ cmdCall.src.some
                          /\ cmdCall.src.value # <<"1","2","7",".","0",".","0",".","1">>
        IN  /\ usable_src =>
                  /\ out.result = Ok(cmdCall.src.value)
                  /\ out.commands = <<"ip route get 8.8.8.8">>
            /\ out.result.kind = "Ok" =>
                  /\ out.result.value # <<"8",".","8",".","8",".","8">>
                  /\ cmdCall.via.some => out.result.value # cmdCall.via.value
            /\ Len(out.commands) = 2 <=> ~usable_src

----------------------------------------------------------------------------
(* Properties of the steps of the username evaluation, under SpecEvaluator *)

C29_AccumulatorsNeverOverflow ==
    EVReturned =>
        LET order == <<[privacy |-> 0, uniqueness |-> 0], evSteps.length, evSteps.dictionary,
                       evSteps.common, evSteps.personal, evSteps.complexity,
                       evSteps.sequential, evSteps.boost>>
            Stepped(before, after) ==
                \/ after - before \in 0..25
                \/ \E d \in {10, 15, 25, 30} : after = IF before > d THEN before - d ELSE 0
        IN  /\ \A k \in 2..Len(order) :
                  /\ order[k].privacy \in 0..95
                  /\ order[k].uniqueness \in 0..90
                  /\ Stepped(order[k - 1].privacy, order[k].privacy)
                  /\ Stepped(order[k - 1].uniqueness, order[k].uniqueness)
            /\ (6 * evSteps.boost.privacy + 4 * evSteps.boost.uniqueness) \div 10 <= 100
            /\ evResult.value.privacy_score = evSteps.boost.privacy
            /\ evResult.value.uniqueness_score = evSteps.boost.uniqueness
            /\ evResult.value.score <= 100

\* an evaluation whose privacy reached 95, the largest value
C29_Witness ==
    /\ EVReturned
    /\ evResult.value.privacy_score = 95
    /\ evResult.value.uniqueness_score = 85
    /\ evSteps.personal.privacy = 80

\* C30: the classification of an evaluated username is never CompoundWords;
\* a username whose lower-cased form is two list words one after the other
\* is classified SecureEFFWord with the length of the whole, and one whose
\* lower-cased form is a list word followed only by digits is classified
\* SecureEFFWord with the length of the word, not WeakDictionary
C30_CompoundWordsUnreachable ==
    EVDone =>
        LET username_lower == to_lowercase(evUsername)
            words == RangeOf(EFF_LONG_WORD_LIST)
            usage == analyze_dictionary_usage(username_lower)
            Texts(feedback) == {feedback[i].text : i \in 1..Len(feedback)}
            SecureEFFWord(length) ==
                /\ usage = Returned([kind |-> "SecureEFFWord", word_length |-> length])
                /\ ~evResult.panic
                /\ Texts(evResult.value.feedback) \cap
                      {"Contains easily guessable dictionary pattern",
                       "Contains compound words - moderate security"} = {}
        IN  /\ ~usage.panic => usage.value.kind # "CompoundWords"
            /\ ~evResult.panic =>
                  "Contains compound words - moderate security"
                      \notin Texts(evResult.value.feedback)
            /\ (\E first \in words, second \in words : username_lower = first \o second)
                  => SecureEFFWord(Len(username_lower))
            /\ \A n \in 1..(Len(username_lower) - 1) :
                  (/\ SubSeq(username_lower, 1, n) \in words
                   /\ \A k \in (n + 1)..Len(username_lower) :
                         username_lower[k] \in RangeOf(DecimalDigits))
                     => SecureEFFWord(n)

\* two list words one after the other have been classified as a secure word
C30_Witness ==
    /\ EVReturned
    /\ evUsername = <<"o","u","t","c","o","m","e","a","b","i","d","e">>
    /\ evSteps.dictionary.feedback[Len(evSteps.dictionary.feedback)].text =
          "Uses cryptographically strong word - excellent choice"

====
